---------------------------- MODULE Spec2Model ----------------------------
(***************************************************************************)
(* Authentication and authorization core of the marketplace services:      *)
(* the auth controller (register, login, refresh, logout, me, change       *)
(* password), the user model (users and refresh_tokens tables), the JWT    *)
(* utilities and the authenticate / authorize / requirePermission          *)
(* middleware, with the global error handler that turns a thrown error     *)
(* into an HTTP status.                                                    *)
(*                                                                         *)
(* Time is the wall clock in whole seconds: jsonwebtoken stamps iat and    *)
(* exp in seconds, so two tokens signed for the same payload in the same   *)
(* second are the same string.  A handler is one atomic action where       *)
(* requests come one after the other; where logins overlap, a login is one *)
(* step per awaited query, and the steps of two requests interleave.       *)
(***************************************************************************)
EXTENDS Integers, Sequences, FiniteSets, TLC

VARIABLES users, refresh_tokens, clientAccess, clientRefresh, now, ticks,
          inflight, resp, ghost, server, products, orders, browser

vars == <<users, refresh_tokens, clientAccess, clientRefresh, now, ticks,
          inflight, resp, ghost, server, products, orders, browser>>

(***************************************************************************)
(* Bounds of the model.                                                    *)
(***************************************************************************)
MaxTicks == 1

MaxRows == 3

\* the login requests that can be in flight at once
MaxProcs == 2

Procs == 1..MaxProcs

\* gen_random_uuid(): ids are opaque, the n-th row created gets the n-th id
UserIdSeq == <<"u1", "u2">>

UserIds == {UserIdSeq[i] : i \in 1..Len(UserIdSeq)}

\* crypto.randomBytes(SALT_LENGTH) of hashPassword
Salts == {"s1"}

(***************************************************************************)
(* Program constants.                                                      *)
(***************************************************************************)
MAX_FAILED_ATTEMPTS == 5

LOCK_DURATION_MINUTES == 15

LockDurationSec == LOCK_DURATION_MINUTES * 60

\* JWT_EXPIRATION '24h'
AccessTtlSec == 24 * 60 * 60

\* JWT_REFRESH_EXPIRATION '7d' and the 7 days of storeRefreshToken
RefreshTtlSec == 7 * 24 * 60 * 60

ROLES == {"ADMIN", "SELLER", "BUYER"}

ISSUER == "secure-marketplace"

AUD_API == "marketplace-api"

AUD_REFRESH == "marketplace-refresh"

\* amounts by which the wall clock advances between two requests
Jumps == {1, LockDurationSec - 1, LockDurationSec}

SessionJumps == {1, RefreshTtlSec}

RaceJumps == {LockDurationSec}

AccountJumps == {1}

GateJumps == {AccessTtlSec - 1, AccessTtlSec}

TokenJumps == {AccessTtlSec - 1, AccessTtlSec, AccessTtlSec + 1}

NULL == -1

(***************************************************************************)
(* Passwords as submitted: the text with the facts the validator tests.    *)
(***************************************************************************)
Pw(text, len, lower, upper, digit) ==
    [text |-> text, len |-> len, lower |-> lower, upper |-> upper, digit |-> digit]

PwSecret == Pw("Secret123", 9, TRUE, TRUE, TRUE)

PwOther == Pw("Other4567", 9, TRUE, TRUE, TRUE)

PwWeak == Pw("secret", 6, TRUE, FALSE, FALSE)

PwEmpty == Pw("", 0, FALSE, FALSE, FALSE)

PwNoDigit == Pw("SecretPass", 10, TRUE, TRUE, FALSE)

\* the requests the clients send
RegisterInputs ==
    {<<"alice@example.com", PwSecret, "BUYER">>,
     <<"Alice@Example.com", PwSecret, "SELLER">>,
     <<"alice@example.com", PwWeak, "BUYER">>,
     <<"alice@example.com", PwSecret, "GUEST">>,
     <<"bob@example.com", PwSecret, "ADMIN">>,
     <<"bob@example.com", PwNoDigit, "ADMIN">>,
     <<"not-an-email", PwSecret, "BUYER">>}

\* the registrations of one account
AliceRegisters == {x \in RegisterInputs : x[1] = "alice@example.com"}

LoginInputs ==
    {<<"alice@example.com", PwSecret>>,
     <<"alice@example.com", PwOther>>,
     <<"Alice@Example.com", PwSecret>>,
     <<"bob@example.com", PwSecret>>,
     <<"alice@example.com", PwEmpty>>}

SessionLogins ==
    {<<"alice@example.com", PwSecret>>,
     <<"alice@example.com", PwOther>>}

GateLogins ==
    {<<"alice@example.com", PwSecret>>,
     <<"bob@example.com", PwSecret>>}

\* the bodies of PUT /auth/password
PasswordChangeInputs ==
    {<<PwSecret, PwOther>>, <<PwOther, PwSecret>>, <<PwSecret, PwWeak>>}

\* validator.isEmail on the addresses the clients submit
IsEmail(e) == e \in {"alice@example.com", "Alice@Example.com", "bob@example.com"}

\* the complexity test without the digit class
PasswordValidNoDigitTest(p) ==
    /\ p.len >= 8
    /\ p.len <= 128
    /\ p.lower /\ p.upper

\* validationSchemas.user.password with validateInput's 'password' case
PasswordValid(p) ==
    /\ p.len >= 8
    /\ p.len <= 128
    /\ p.lower /\ p.upper /\ p.digit

\* validator.normalizeEmail: lower-cases the address
NormalizeEmail(e) ==
    IF e = "Alice@Example.com" THEN "alice@example.com" ELSE e

(***************************************************************************)
(* Password hasher: salt:derivedKey, the key a function of password, salt. *)
(***************************************************************************)
Pbkdf2(text, salt) == <<text, salt>>

HashPassword(p, salt) == [salt |-> salt, key |-> Pbkdf2(p.text, salt)]

VerifyPasswordUtil(p, hash) == hash.key = Pbkdf2(p.text, hash.salt)

(***************************************************************************)
(* JSON web tokens.  sig is "good" when the signature was made with        *)
(* JWT_SECRET over exactly these claims.                                   *)
(***************************************************************************)
Jwt(typ, userId, email, role, iat, exp, aud, sig) ==
    [typ |-> typ, userId |-> userId, email |-> email, role |-> role,
     iat |-> iat, exp |-> exp, iss |-> ISSUER, aud |-> aud, sig |-> sig]

NoToken == Jwt("none", "-", "-", "-", 0, 0, "-", "-")

Malformed == Jwt("malformed", "-", "-", "-", 0, 0, "-", "-")

GenerateAccessToken(userId, email, role, t) ==
    Jwt("jwt", userId, email, role, t, t + AccessTtlSec, AUD_API, "good")

GenerateRefreshToken(userId, t) ==
    Jwt("jwt", userId, "-", "-", t, t + RefreshTtlSec, AUD_REFRESH, "good")

\* the verification without the audience option
JwtVerifyNoAudience(token, aud, t) ==
    IF token.typ # "jwt" THEN "JsonWebTokenError"
    ELSE IF token.sig # "good" THEN "JsonWebTokenError"
    ELSE IF t >= token.exp THEN "TokenExpiredError"
    ELSE IF token.iss # ISSUER THEN "JsonWebTokenError"
    ELSE "ok"

\* jwt.verify(token, JWT_SECRET, {issuer, audience}): the name of the error
\* thrown, or "ok"
JwtVerify(token, aud, t) ==
    IF token.typ # "jwt" THEN "JsonWebTokenError"
    ELSE IF token.sig # "good" THEN "JsonWebTokenError"
    ELSE IF t >= token.exp THEN "TokenExpiredError"
    ELSE IF token.aud # aud THEN "JsonWebTokenError"
    ELSE IF token.iss # ISSUER THEN "JsonWebTokenError"
    ELSE "ok"

\* the verification without the branch for TokenExpiredError
VerifyTokenNoExpiredBranch(token, t) ==
    IF JwtVerify(token, AUD_API, t) = "ok" THEN "ok" ELSE "Invalid token"

\* verifyToken: "ok" or the message of the Error thrown
VerifyToken(token, t) ==
    LET r == JwtVerify(token, AUD_API, t) IN
    IF r = "ok" THEN "ok"
    ELSE IF r = "TokenExpiredError" THEN "Token expired"
    ELSE IF r = "JsonWebTokenError" THEN "Invalid token"
    ELSE "Token verification failed"

\* verifyRefreshToken: "ok" or the message of the plain Error thrown
VerifyRefreshToken(token, t) ==
    IF JwtVerify(token, AUD_REFRESH, t) = "ok" THEN "ok"
    ELSE "Invalid refresh token"

\* crypto.createHash('sha256').update(token).digest('hex')
Sha256(token) == <<"sha256", token>>


(***************************************************************************)
(* Errors and the global error handler.                                    *)
(***************************************************************************)
Err(name, message, statusCode, code) ==
    [name |-> name, message |-> message, statusCode |-> statusCode, code |-> code]

ValidationError(message) == Err("ValidationError", message, 400, "VALIDATION_ERROR")

AuthenticationError(message) == Err("AuthenticationError", message, 401, "AUTHENTICATION_ERROR")

ConflictError(message) == Err("ConflictError", message, 409, "CONFLICT")

AuthorizationError(message) == Err("AuthorizationError", message, 403, "AUTHORIZATION_ERROR")

NotFoundError(message) == Err("NotFoundError", message, 404, "NOT_FOUND")

\* the error pg throws for a violated UNIQUE constraint: code is the
\* SQLSTATE, there is no statusCode
UniqueViolation ==
    Err("error", "duplicate key value violates unique constraint", NULL, "23505")

\* new Error(message): no statusCode, no code
PlainError(message) == Err("Error", message, NULL, "-")

\* errorHandler: err.statusCode || err.status || 500, err.code || 'INTERNAL_ERROR'
ErrorStatus(err) == IF err.statusCode # NULL THEN err.statusCode ELSE 500

ErrorCode(err) == IF err.code # "-" THEN err.code ELSE "INTERNAL_ERROR"

(***************************************************************************)
(* Rows of the users table and of the refresh_tokens table.  The columns   *)
(* created_at and updated_at are written and read by no decision; they are *)
(* not kept.                                                               *)
(***************************************************************************)
UserRow(id, email, hash, role) ==
    [id |-> id, email |-> email, password_hash |-> hash, role |-> role,
     is_active |-> TRUE, failed_login_attempts |-> 0, locked_until |-> NULL,
     last_login |-> NULL]

NoRow == [id |-> "-", email |-> "-", password_hash |-> [salt |-> "-", key |-> <<"-", "-">>],
          role |-> "-", is_active |-> FALSE, failed_login_attempts |-> 0,
          locked_until |-> NULL, last_login |-> NULL]

\* the row with the token as it was received in the token_hash column
TokenRowPlain(userId, token, t) ==
    [user_id |-> userId, token_hash |-> <<"plain", token>>,
     expires_at |-> t + RefreshTtlSec, revoked |-> FALSE]

\* INSERT INTO refresh_tokens (user_id, token_hash, expires_at)
TokenRow(userId, token, t) ==
    [user_id |-> userId, token_hash |-> Sha256(token),
     expires_at |-> t + RefreshTtlSec, revoked |-> FALSE]

\* the identity authenticate attaches to the request (req.user)
NoIdentity == [userId |-> "-", email |-> "-", role |-> "-"]

Identity(token) == [userId |-> token.userId, email |-> token.email, role |-> token.role]

\* the Authorization header of a request
NoHeader == [scheme |-> "none", token |-> NoToken]

Header(scheme, token) == [scheme |-> scheme, token |-> token]

(***************************************************************************)
(* The response to the last request, with the request it answers.          *)
(***************************************************************************)
NoResp ==
    [op |-> "none", status |-> 0, code |-> "-", error |-> "-",
     email |-> "-", password |-> "-", token |-> NoToken, header |-> NoHeader,
     at |-> 0, pre |-> NoRow, consecBefore |-> 0, fifthAtBefore |-> NULL,
     accessToken |-> NoToken, refreshToken |-> NoToken,
     user |-> NoIdentity, role |-> "-", newPassword |-> "-",
     allowed |-> {}, permission |-> "-", handler |-> FALSE,
     lockedAtVerify |-> FALSE, overlap |-> 0,
     live |-> FALSE, changed |-> FALSE, again |-> FALSE, shared |-> FALSE, stale |-> FALSE,
     resource |-> "-", returned |-> FALSE, log |-> {}, stack |-> FALSE]

(***************************************************************************)
(* Logger: the records a request leaves in the log.  A record keeps the    *)
(* event, the actor, a top-level password field of the logged object and   *)
(* the request body nested in it.                                          *)
(***************************************************************************)
NoBody == [email |-> "-", password |-> "-", newPassword |-> "-"]

\* req.body: the address and the passwords the client submitted
Body(r) == [email |-> r.email, password |-> r.password, newPassword |-> r.newPassword]

Details(userId, password, body) == [userId |-> userId, password |-> password, body |-> body]

RECURSIVE Stars(_)
Stars(n) == IF n <= 0 THEN "" ELSE "*" \o Stars(n - 1)

\* maskSensitiveData(data, visibleChars = 4)
MaskSensitiveData(data) ==
    IF data = "" \/ Len(data) <= 4 THEN "****"
    ELSE SubSeq(data, 1, 4) \o Stars(Len(data) - 4)

\* maskSensitiveFields: the sensitive names among the fields of the object
\* itself are masked; nested objects are copied as they are
MaskSensitiveFields(details) ==
    [details EXCEPT !.password = IF @ \in {"", "-"} THEN @ ELSE MaskSensitiveData(@)]

\* logger.log(severity, message, {eventType, details: maskedDetails})
LogSecurityEvent(eventType, details) ==
    [event |-> eventType, details |-> MaskSensitiveFields(details)]

\* logAuthEvent: action, userId || 'unknown', success, ip and userAgent
LogAuthEvent(userId) ==
    LogSecurityEvent("AUTH_EVENT", Details(IF userId = "" THEN "unknown" ELSE userId,
                                           "-", NoBody))

LogAuthzFailure(userId) == LogSecurityEvent("AUTHZ_FAILURE", Details(userId, "-", NoBody))

\* logError(err, {method, path, userId: req.user?.userId, ip, body: req.body})
LogError(err, r) ==
    [event |-> "APPLICATION_ERROR",
     details |-> MaskSensitiveFields(Details(r.user.userId, "-", Body(r)))]

Logged(r, entry) == [r EXCEPT !.log = @ \cup {entry}]

\* errorHandler: the error is logged, then answered with its own message
\* and code, and with its stack when NODE_ENV is 'development'
Failure(r, err) ==
    [r EXCEPT !.status = ErrorStatus(err), !.code = ErrorCode(err),
              !.error = IF err.message = "" THEN "Internal server error" ELSE err.message,
              !.stack = server.NODE_ENV = "development",
              !.log = @ \cup {LogError(err, r)}]

(***************************************************************************)
(* User model.                                                             *)
(***************************************************************************)
\* findByEmail: SELECT * FROM users WHERE email = $1 AND is_active = true
FindByEmail(email) == {r \in users : r.email = email /\ r.is_active}

\* findById: ... WHERE id = $1 AND is_active = true
FindById(userId) == {r \in users : r.id = userId /\ r.is_active}

\* the comparison of the hashes left out
VerifyPasswordAnyRow(userId, p) == \E r \in users : r.id = userId

\* verifyPassword: no row gives false
VerifyPassword(userId, p) ==
    \E r \in users : r.id = userId /\ VerifyPasswordUtil(p, r.password_hash)

\* the lock set one failure late: > in place of >=
IncrementedRowLate(r, t) ==
    [r EXCEPT !.failed_login_attempts = r.failed_login_attempts + 1,
              !.locked_until = IF r.failed_login_attempts + 1 > MAX_FAILED_ATTEMPTS
                               THEN t + LockDurationSec
                               ELSE r.locked_until]

\* the lock expiry written by every failure
IncrementedRowAlwaysLocks(r, t) ==
    [r EXCEPT !.failed_login_attempts = r.failed_login_attempts + 1,
              !.locked_until = t + LockDurationSec]

IncrementedRow(r, t) ==
    [r EXCEPT !.failed_login_attempts = r.failed_login_attempts + 1,
              !.locked_until = IF r.failed_login_attempts + 1 >= MAX_FAILED_ATTEMPTS
                               THEN t + LockDurationSec
                               ELSE r.locked_until]

\* the update skipping a row whose lock expiry is already set
IncrementFailedLoginAttemptsUnlockedOnly(us, userId, t) ==
    {IF r.id = userId /\ r.locked_until = NULL THEN IncrementedRow(r, t) ELSE r : r \in us}

IncrementFailedLoginAttempts(us, userId, t) ==
    {IF r.id = userId THEN IncrementedRow(r, t) ELSE r : r \in us}

\* the counter reset, the lock expiry left in place
ResetRowKeepsLock(r) == [r EXCEPT !.failed_login_attempts = 0]

\* the lock expiry cleared, the counter left in place
ResetRowKeepsCounter(r) == [r EXCEPT !.locked_until = NULL]

ResetRow(r) == [r EXCEPT !.failed_login_attempts = 0, !.locked_until = NULL]

ResetFailedLoginAttempts(us, userId) ==
    {IF r.id = userId THEN ResetRow(r) ELSE r : r \in us}

UpdateLastLogin(us, userId, t) ==
    {IF r.id = userId THEN [r EXCEPT !.last_login = t] ELSE r : r \in us}

\* the update that writes the role column along with the hash
UpdatePasswordAndRole(us, userId, p, salt) ==
    {IF r.id = userId THEN [r EXCEPT !.password_hash = HashPassword(p, salt), !.role = "ADMIN"]
     ELSE r : r \in us}

\* UPDATE users SET password_hash = $1, updated_at = CURRENT_TIMESTAMP WHERE id = $2
UpdatePassword(us, userId, p, salt) ==
    {IF r.id = userId THEN [r EXCEPT !.password_hash = HashPassword(p, salt)] ELSE r : r \in us}

StoreRefreshToken(rows, userId, token, t) == rows \cup {TokenRow(userId, token, t)}

\* the ledger lookup without the revoked test
ValidateRefreshTokenAnyRow(rows, userId, token, t) ==
    \E r \in rows : /\ r.user_id = userId
                    /\ r.token_hash = Sha256(token)
                    /\ r.expires_at > t

ValidateRefreshToken(rows, userId, token, t) ==
    \E r \in rows : /\ r.user_id = userId
                    /\ r.token_hash = Sha256(token)
                    /\ r.expires_at > t
                    /\ r.revoked = FALSE

\* the update flipping the flag in place of setting it
RevokeRefreshTokenToggle(rows, userId, token) ==
    {IF r.user_id = userId /\ r.token_hash = Sha256(token)
     THEN [r EXCEPT !.revoked = ~r.revoked] ELSE r : r \in rows}

\* the update finding the row by its hash alone
RevokeRefreshTokenAnyOwner(rows, userId, token) ==
    {IF r.token_hash = Sha256(token)
     THEN [r EXCEPT !.revoked = TRUE] ELSE r : r \in rows}

\* UPDATE refresh_tokens SET revoked = true WHERE user_id = $1 AND token_hash = $2
RevokeRefreshToken(rows, userId, token) ==
    {IF r.user_id = userId /\ r.token_hash = Sha256(token)
     THEN [r EXCEPT !.revoked = TRUE] ELSE r : r \in rows}

RevokeAllRefreshTokens(rows, userId) ==
    {IF r.user_id = userId THEN [r EXCEPT !.revoked = TRUE] ELSE r : r \in rows}

\* login's lock test: user.locked_until && new Date(user.locked_until) > new Date()
IsLocked(r, t) == r.locked_until # NULL /\ r.locked_until > t

(***************************************************************************)
(* Bookkeeping of the run, not program state: the refresh tokens revoked   *)
(* by a logout, those outstanding when their owner changed the password,   *)
(* the bodies of the registrations answered 201 with the id they created,  *)
(* and per user the run of consecutive 'Invalid credentials' answers with  *)
(* the time of the fifth.                                                  *)
(***************************************************************************)
NoGhost ==
    [loggedOut |-> {}, preChange |-> {}, registered |-> {},
     consec |-> [u \in UserIds |-> 0], fifthAt |-> [u \in UserIds |-> NULL]]

GhostFail(g, u, t) ==
    [g EXCEPT !.consec[u] = @ + 1,
              !.fifthAt[u] = IF g.consec[u] + 1 = MAX_FAILED_ATTEMPTS THEN t ELSE @]

GhostSuccess(g, u) == [g EXCEPT !.consec[u] = 0, !.fifthAt[u] = NULL]

\* the model keeps the ledger within its bound
Fits(rows) == Cardinality(rows) <= MaxRows

\* the client of a user stores the access token it received last
Keep(held, token) == {t \in held : t.userId # token.userId} \cup {token}

\* a login request between two awaits: the query it waits for, the password
\* of its body, and the id, email and role of the row findByEmail returned
Idle ==
    [pc |-> "idle", password |-> PwEmpty, user |-> NoIdentity,
     lockedAtVerify |-> FALSE]

\* the process environment and the life of the process: "" is a variable
\* that is not set
DEFAULT_JWT_SECRET == "your-secret-key-change-in-production"

Environments ==
    [NODE_ENV : {"production", "development", ""},
     JWT_SECRET : {"", DEFAULT_JWT_SECRET, "k1"}]

\* hits and resetAt are the memory store of strictRateLimiter for the one
\* address the clients of the model share
Process(env, phase) ==
    [NODE_ENV |-> env.NODE_ENV, JWT_SECRET |-> env.JWT_SECRET, phase |-> phase,
     hits |-> 0, resetAt |-> 0]

\* const JWT_SECRET = process.env.JWT_SECRET || 'your-secret-key-change-in-production'
JwtSecret(process) ==
    IF process.JWT_SECRET = "" THEN DEFAULT_JWT_SECRET ELSE process.JWT_SECRET

\* the request the browser has in flight: the place of the interceptor, the
\* _retry mark of its config, the calls made for it and how its promise ended
NoCall ==
    [pc |-> "idle", url |-> "-", bearer |-> "-", retry |-> FALSE, sends |-> 0,
     refreshes |-> 0, refreshed |-> "-", logouts |-> 0, status |-> 0, outcome |-> "-"]

\* the auth store of the browser as create() leaves it ("-" is null);
\* leaving says that the POST /auth/logout of logout() is in flight
SignedOut ==
    [accessToken |-> "-", refreshToken |-> "-", isAuthenticated |-> FALSE,
     leaving |-> FALSE, call |-> NoCall]

\* the tables of the product service and of the order service, and the
\* browser, none of which a handler of the auth service writes
Elsewhere == UNCHANGED <<products, orders, browser>>

\* the service takes requests once app.listen has been called; the
\* environment is read at start and stays as it is
Serving == server.phase = "listening" /\ UNCHANGED server /\ Elsewhere

Init ==
    /\ server = Process([NODE_ENV |-> "production", JWT_SECRET |-> ""], "listening")
    /\ users = {}
    /\ inflight = [p \in Procs |-> Idle]
    /\ refresh_tokens = {}
    /\ clientAccess = {}
    /\ clientRefresh = {}
    /\ now = 0
    /\ ticks = 0
    /\ resp = NoResp
    /\ ghost = NoGhost
    /\ products = {}
    /\ orders = {}
    /\ browser = SignedOut

\* the wall clock advances between two requests
Tick(d) ==
    /\ ticks < MaxTicks
    /\ now' = now + d
    /\ ticks' = ticks + 1
    /\ UNCHANGED <<users, refresh_tokens, clientAccess, clientRefresh, inflight, resp, ghost,
                   server>>
    /\ Elsewhere

\* the process before it listens, in any environment
InitStartup ==
    /\ server \in {Process(env, "starting") : env \in Environments}
    /\ users = {}
    /\ inflight = [p \in Procs |-> Idle]
    /\ refresh_tokens = {}
    /\ clientAccess = {}
    /\ clientRefresh = {}
    /\ now = 0
    /\ ticks = 0
    /\ resp = NoResp
    /\ ghost = NoGhost
    /\ products = {}
    /\ orders = {}
    /\ browser = SignedOut

\* initializeDatabase().then(() => app.listen(PORT)).catch(() => process.exit(1))
Startup(databaseReady) ==
    /\ server.phase = "starting"
    /\ server' = [server EXCEPT !.phase = IF databaseReady THEN "listening" ELSE "exited"]
    /\ UNCHANGED <<users, refresh_tokens, clientAccess, clientRefresh, now, ticks, inflight,
                   resp, ghost>>
    /\ Elsewhere

(***************************************************************************)
(* POST /auth/register                                                     *)
(***************************************************************************)
\* the register handler of the controller
RegisterHandler(email, p, role, salt) ==
    LET req == [NoResp EXCEPT !.op = "register", !.at = now, !.email = email,
                              !.password = p.text, !.role = role]
        valid == IsEmail(email) /\ PasswordValid(p) /\ role \in ROLES
        sane == NormalizeEmail(email)
        id == UserIdSeq[Cardinality(users) + 1]
        user == UserRow(id, sane, HashPassword(p, salt), role)
        accessToken == GenerateAccessToken(id, sane, role, now)
        refreshToken == GenerateRefreshToken(id, now)
        rows == StoreRefreshToken(refresh_tokens, id, refreshToken, now)
    IN
    /\ UNCHANGED <<now, ticks, inflight>>
    /\ IF ~valid THEN
          /\ resp' = Failure(req, ValidationError("Validation failed"))
          /\ UNCHANGED <<users, refresh_tokens, clientAccess, clientRefresh, ghost>>
       ELSE IF FindByEmail(sane) # {} THEN
          /\ resp' = Failure(req, ConflictError("User already exists with this email"))
          /\ UNCHANGED <<users, refresh_tokens, clientAccess, clientRefresh, ghost>>
       ELSE IF \E r \in users : r.email = sane THEN
          \* INSERT INTO users: email VARCHAR(255) UNIQUE
          /\ resp' = Failure(req, UniqueViolation)
          /\ UNCHANGED <<users, refresh_tokens, clientAccess, clientRefresh, ghost>>
       ELSE
          /\ Fits(rows)
          /\ users' = users \cup {user}
          /\ refresh_tokens' = rows
          /\ clientAccess' = Keep(clientAccess, accessToken)
          /\ clientRefresh' = clientRefresh \cup {refreshToken}
          /\ ghost' = [ghost EXCEPT !.registered = @ \cup
                          {[email |-> email, password |-> p.text, role |-> role, id |-> id]}]
          /\ resp' = [req EXCEPT !.status = 201, !.user = Identity(accessToken),
                                 !.handler = TRUE, !.changed = TRUE,
                                 !.log = {LogAuthEvent(id)},
                                 !.accessToken = accessToken,
                                 !.refreshToken = refreshToken]

\* a register request that reaches the handler
Register(email, p, role, salt) == Serving /\ RegisterHandler(email, p, role, salt)

\* POST /auth/register as it runs when requests overlap.  The first step is
\* the validation and await userModel.findByEmail(email)
RegisterFind(p, email, pw, role) ==
    LET req == [NoResp EXCEPT !.op = "register", !.at = now, !.email = email,
                              !.password = pw.text, !.role = role]
        valid == IsEmail(email) /\ PasswordValid(pw) /\ role \in ROLES
        sane == NormalizeEmail(email)
    IN
    /\ Serving
    /\ inflight[p].pc = "idle"
    /\ UNCHANGED <<users, refresh_tokens, clientAccess, clientRefresh, now, ticks, ghost>>
    /\ IF ~valid THEN
          /\ resp' = Failure(req, ValidationError("Validation failed"))
          /\ UNCHANGED inflight
       ELSE IF FindByEmail(sane) # {} THEN
          /\ resp' = Failure(req, ConflictError("User already exists with this email"))
          /\ UNCHANGED inflight
       ELSE
          /\ inflight' = [inflight EXCEPT ![p] =
                 [Idle EXCEPT !.pc = "create", !.password = pw,
                              !.user = [userId |-> "-", email |-> sane, role |-> role]]]
          /\ UNCHANGED resp

\* await userModel.create({email, password, role}), then the tokens and
\* await userModel.storeRefreshToken(user.id, refreshToken), which writes
\* what no step of another registration reads
RegisterCreate(p, salt) ==
    LET f == inflight[p]
        req == [NoResp EXCEPT !.op = "register", !.at = now, !.email = f.user.email,
                              !.password = f.password.text, !.role = f.user.role]
        id == UserIdSeq[Cardinality(users) + 1]
        user == UserRow(id, f.user.email, HashPassword(f.password, salt), f.user.role)
        accessToken == GenerateAccessToken(id, f.user.email, f.user.role, now)
        refreshToken == GenerateRefreshToken(id, now)
        rows == StoreRefreshToken(refresh_tokens, id, refreshToken, now)
    IN
    /\ Serving
    /\ f.pc = "create"
    /\ inflight' = [inflight EXCEPT ![p] = Idle]
    /\ UNCHANGED <<now, ticks>>
    /\ IF \E r \in users : r.email = f.user.email THEN
          \* INSERT INTO users: email VARCHAR(255) UNIQUE
          /\ resp' = Failure(req, UniqueViolation)
          /\ UNCHANGED <<users, refresh_tokens, clientAccess, clientRefresh, ghost>>
       ELSE
          /\ Fits(rows)
          /\ users' = users \cup {user}
          /\ refresh_tokens' = rows
          /\ clientAccess' = Keep(clientAccess, accessToken)
          /\ clientRefresh' = clientRefresh \cup {refreshToken}
          /\ ghost' = [ghost EXCEPT !.registered = @ \cup
                          {[email |-> f.user.email, password |-> f.password.text,
                            role |-> f.user.role, id |-> id]}]
          /\ resp' = [req EXCEPT !.status = 201, !.user = Identity(accessToken),
                                 !.handler = TRUE, !.changed = TRUE,
                                 !.log = {LogAuthEvent(id)},
                                 !.accessToken = accessToken,
                                 !.refreshToken = refreshToken]

\* administrative deactivation of a user record: the active flag cleared,
\* the row kept
Deactivate(userId) ==
    /\ Serving
    /\ \E r \in users : r.id = userId /\ r.is_active
    /\ users' = {IF r.id = userId THEN [r EXCEPT !.is_active = FALSE] ELSE r : r \in users}
    /\ resp' = [NoResp EXCEPT !.op = "deactivate", !.at = now]
    /\ UNCHANGED <<refresh_tokens, clientAccess, clientRefresh, now, ticks, inflight, ghost>>

(***************************************************************************)
(* POST /auth/login                                                        *)
(***************************************************************************)
\* the refusal carrying the reason login gives to the audit log
LoginRefusalWithReason(reason) == AuthenticationError(reason)

\* the error login throws when the user is not found or the password is
\* wrong; the reason goes to logAuthEvent only
LoginRefusal(reason) == AuthenticationError("Invalid credentials")

\* the handler counting an attempt on a locked account as one more failure
LoginHandlerCountsLocked(email, p) ==
    LET req == [NoResp EXCEPT !.op = "login", !.at = now, !.email = email, !.password = p.text]
        found == FindByEmail(email)
        user == CHOOSE r \in found : TRUE
        seen == [req EXCEPT !.pre = user, !.consecBefore = ghost.consec[user.id],
                            !.fifthAtBefore = ghost.fifthAt[user.id]]
        accessToken == GenerateAccessToken(user.id, user.email, user.role, now)
        refreshToken == GenerateRefreshToken(user.id, now)
        rows == StoreRefreshToken(refresh_tokens, user.id, refreshToken, now)
    IN
    /\ UNCHANGED <<now, ticks, inflight>>
    /\ IF email = "" \/ p.text = "" THEN
          /\ resp' = Failure(req, ValidationError("Email and password are required"))
          /\ UNCHANGED <<users, refresh_tokens, clientAccess, clientRefresh, ghost>>
       ELSE IF found = {} THEN
          /\ resp' = Failure(Logged(req, LogAuthEvent("unknown")),
                           LoginRefusal("User not found"))
          /\ UNCHANGED <<users, refresh_tokens, clientAccess, clientRefresh, ghost>>
       ELSE IF IsLocked(user, now) THEN
          /\ resp' = Failure(Logged(seen, LogSecurityEvent("ACCOUNT_LOCKED_LOGIN_ATTEMPT",
                                                         Details(user.id, "-", NoBody))),
                           AuthenticationError("Account is temporarily locked"))
          /\ users' = IncrementFailedLoginAttempts(users, user.id, now)
          /\ UNCHANGED <<refresh_tokens, clientAccess, clientRefresh, ghost>>
       ELSE IF ~VerifyPassword(user.id, p) THEN
          /\ users' = IncrementFailedLoginAttempts(users, user.id, now)
          /\ ghost' = GhostFail(ghost, user.id, now)
          /\ resp' = Failure(Logged(seen, LogAuthEvent(user.id)),
                             LoginRefusal("Invalid password"))
          /\ UNCHANGED <<refresh_tokens, clientAccess, clientRefresh>>
       ELSE
          /\ Fits(rows)
          /\ users' = UpdateLastLogin(ResetFailedLoginAttempts(users, user.id), user.id, now)
          /\ ghost' = GhostSuccess(ghost, user.id)
          /\ refresh_tokens' = rows
          /\ clientAccess' = Keep(clientAccess, accessToken)
          /\ clientRefresh' = clientRefresh \cup {refreshToken}
          /\ resp' = [seen EXCEPT !.status = 200, !.user = Identity(accessToken),
                                  !.handler = TRUE,
                                  !.log = {LogAuthEvent(user.id)},
                                  !.again = refreshToken \in clientRefresh,
                                  !.shared = ValidateRefreshToken(refresh_tokens, user.id,
                                                                  refreshToken, now),
                                  !.accessToken = accessToken,
                                  !.refreshToken = refreshToken]

\* the login handler of the controller
LoginHandler(email, p) ==
    LET req == [NoResp EXCEPT !.op = "login", !.at = now, !.email = email, !.password = p.text]
        found == FindByEmail(email)
        user == CHOOSE r \in found : TRUE
        seen == [req EXCEPT !.pre = user, !.consecBefore = ghost.consec[user.id],
                            !.fifthAtBefore = ghost.fifthAt[user.id]]
        accessToken == GenerateAccessToken(user.id, user.email, user.role, now)
        refreshToken == GenerateRefreshToken(user.id, now)
        rows == StoreRefreshToken(refresh_tokens, user.id, refreshToken, now)
    IN
    /\ UNCHANGED <<now, ticks, inflight>>
    /\ IF email = "" \/ p.text = "" THEN
          /\ resp' = Failure(req, ValidationError("Email and password are required"))
          /\ UNCHANGED <<users, refresh_tokens, clientAccess, clientRefresh, ghost>>
       ELSE IF found = {} THEN
          /\ resp' = Failure(Logged(req, LogAuthEvent("unknown")),
                           LoginRefusal("User not found"))
          /\ UNCHANGED <<users, refresh_tokens, clientAccess, clientRefresh, ghost>>
       ELSE IF IsLocked(user, now) THEN
          /\ resp' = Failure(Logged(seen, LogSecurityEvent("ACCOUNT_LOCKED_LOGIN_ATTEMPT",
                                                         Details(user.id, "-", NoBody))),
                           AuthenticationError("Account is temporarily locked"))
          /\ UNCHANGED <<users, refresh_tokens, clientAccess, clientRefresh, ghost>>
       ELSE IF ~VerifyPassword(user.id, p) THEN
          /\ users' = IncrementFailedLoginAttempts(users, user.id, now)
          /\ ghost' = GhostFail(ghost, user.id, now)
          /\ resp' = Failure(Logged(seen, LogAuthEvent(user.id)),
                             LoginRefusal("Invalid password"))
          /\ UNCHANGED <<refresh_tokens, clientAccess, clientRefresh>>
       ELSE
          /\ Fits(rows)
          /\ users' = UpdateLastLogin(ResetFailedLoginAttempts(users, user.id), user.id, now)
          /\ ghost' = GhostSuccess(ghost, user.id)
          /\ refresh_tokens' = rows
          /\ clientAccess' = Keep(clientAccess, accessToken)
          /\ clientRefresh' = clientRefresh \cup {refreshToken}
          /\ resp' = [seen EXCEPT !.status = 200, !.user = Identity(accessToken),
                                  !.handler = TRUE,
                                  !.log = {LogAuthEvent(user.id)},
                                  !.again = refreshToken \in clientRefresh,
                                  !.shared = ValidateRefreshToken(refresh_tokens, user.id,
                                                                  refreshToken, now),
                                  !.accessToken = accessToken,
                                  !.refreshToken = refreshToken]

\* a login request that reaches the handler
Login(email, p) == Serving /\ LoginHandler(email, p)

(***************************************************************************)
(* POST /auth/login as it runs when requests overlap: one step per awaited *)
(* query.  The code between two awaits runs without interruption, so the   *)
(* lock test belongs to the step of findByEmail.                           *)
(***************************************************************************)
\* await userModel.findByEmail(email), then the lock test on the row read
LoginFind(p, email, pw) ==
    LET req == [NoResp EXCEPT !.op = "login", !.at = now, !.email = email, !.password = pw.text]
        found == FindByEmail(email)
        user == CHOOSE r \in found : TRUE
        seen == [req EXCEPT !.pre = user]
    IN
    /\ Serving
    /\ inflight[p].pc = "idle"
    /\ UNCHANGED <<users, refresh_tokens, clientAccess, clientRefresh, now, ticks, ghost>>
    /\ IF email = "" \/ pw.text = "" THEN
          /\ resp' = Failure(req, ValidationError("Email and password are required"))
          /\ UNCHANGED inflight
       ELSE IF found = {} THEN
          /\ resp' = Failure(Logged(req, LogAuthEvent("unknown")),
                           LoginRefusal("User not found"))
          /\ UNCHANGED inflight
       ELSE IF IsLocked(user, now) THEN
          /\ resp' = Failure(Logged(seen, LogSecurityEvent("ACCOUNT_LOCKED_LOGIN_ATTEMPT",
                                                         Details(user.id, "-", NoBody))),
                           AuthenticationError("Account is temporarily locked"))
          /\ UNCHANGED inflight
       ELSE
          /\ inflight' = [inflight EXCEPT ![p] =
                 [Idle EXCEPT !.pc = "verify", !.password = pw,
                              !.user = [userId |-> user.id, email |-> user.email,
                                        role |-> user.role]]]
          /\ UNCHANGED resp

\* await userModel.verifyPassword(user.id, password)
LoginVerify(p) ==
    LET f == inflight[p] IN
    /\ Serving
    /\ f.pc = "verify"
    /\ inflight' = [inflight EXCEPT ![p] =
           [f EXCEPT !.pc = IF VerifyPassword(f.user.userId, f.password)
                            THEN "reset" ELSE "increment",
                     !.lockedAtVerify = \E r \in users : r.id = f.user.userId /\ IsLocked(r, now)]]
    /\ UNCHANGED <<users, refresh_tokens, clientAccess, clientRefresh, now, ticks, resp, ghost>>

\* await userModel.incrementFailedLoginAttempts(user.id), then the 401
LoginIncrement(p) ==
    LET f == inflight[p]
        req == [NoResp EXCEPT !.op = "login", !.at = now, !.email = f.user.email,
                              !.password = f.password.text,
                              !.lockedAtVerify = f.lockedAtVerify,
                              !.overlap = Cardinality({q \in Procs \ {p} :
                                                          inflight[q].pc = "increment"})]
    IN
    /\ Serving
    /\ f.pc = "increment"
    /\ users' = IncrementFailedLoginAttempts(users, f.user.userId, now)
    /\ ghost' = GhostFail(ghost, f.user.userId, now)
    /\ resp' = Failure(Logged(req, LogAuthEvent(f.user.userId)),
                       LoginRefusal("Invalid password"))
    /\ inflight' = [inflight EXCEPT ![p] = Idle]
    /\ UNCHANGED <<refresh_tokens, clientAccess, clientRefresh, now, ticks>>

\* await userModel.resetFailedLoginAttempts(user.id)
LoginReset(p) ==
    LET f == inflight[p] IN
    /\ Serving
    /\ f.pc = "reset"
    /\ users' = ResetFailedLoginAttempts(users, f.user.userId)
    /\ ghost' = GhostSuccess(ghost, f.user.userId)
    /\ inflight' = [inflight EXCEPT ![p] = [f EXCEPT !.pc = "issue"]]
    /\ UNCHANGED <<refresh_tokens, clientAccess, clientRefresh, now, ticks, resp>>

\* await userModel.updateLastLogin(user.id), the signing of the tokens,
\* await userModel.storeRefreshToken(user.id, refreshToken), then the 200.
\* The two queries write last_login and the ledger, which no step of another
\* login reads, so they are taken together.
LoginIssue(p) ==
    LET f == inflight[p]
        accessToken == GenerateAccessToken(f.user.userId, f.user.email, f.user.role, now)
        refreshToken == GenerateRefreshToken(f.user.userId, now)
        rows == StoreRefreshToken(refresh_tokens, f.user.userId, refreshToken, now)
    IN
    /\ Serving
    /\ f.pc = "issue"
    /\ Fits(rows)
    /\ users' = UpdateLastLogin(users, f.user.userId, now)
    /\ refresh_tokens' = rows
    /\ clientAccess' = Keep(clientAccess, accessToken)
    /\ clientRefresh' = clientRefresh \cup {refreshToken}
    /\ resp' = [NoResp EXCEPT !.op = "login", !.at = now, !.email = f.user.email,
                              !.password = f.password.text,
                              !.lockedAtVerify = f.lockedAtVerify,
                              !.stale = \E r \in users :
                                           /\ r.id = f.user.userId
                                           /\ ~VerifyPasswordUtil(f.password, r.password_hash),
                              !.status = 200, !.user = f.user, !.handler = TRUE,
                              !.log = {LogAuthEvent(f.user.userId)},
                              !.again = refreshToken \in clientRefresh,
                              !.shared = ValidateRefreshToken(refresh_tokens, f.user.userId,
                                                              refreshToken, now),
                              !.accessToken = accessToken,
                              !.refreshToken = refreshToken]
    /\ inflight' = [inflight EXCEPT ![p] = Idle]
    /\ UNCHANGED <<now, ticks, ghost>>

(***************************************************************************)
(* authenticate middleware: ok with the identity attached to the request,  *)
(* or the 401 it answers.                                                  *)
(***************************************************************************)
AuthResult(ok, user, code, error) ==
    [ok |-> ok, user |-> user, status |-> IF ok THEN 0 ELSE 401, code |-> code, error |-> error]

\* every verification failure answered as an invalid token
AuthenticateOneCode(header, t) ==
    IF header.scheme # "Bearer"
    THEN AuthResult(FALSE, NoIdentity, "AUTH_TOKEN_MISSING", "No token provided")
    ELSE IF VerifyToken(header.token, t) = "ok"
    THEN AuthResult(TRUE, Identity(header.token), "-", "-")
    ELSE AuthResult(FALSE, NoIdentity, "AUTH_TOKEN_INVALID", "Invalid token")

\* authenticate that also asks the ledger for a live session of the user
AuthenticateLiveSession(header, t) ==
    IF header.scheme # "Bearer"
    THEN AuthResult(FALSE, NoIdentity, "AUTH_TOKEN_MISSING", "No token provided")
    ELSE LET v == VerifyToken(header.token, t) IN
         IF v = "ok" /\ \E r \in refresh_tokens : r.user_id = header.token.userId /\ ~r.revoked
         THEN AuthResult(TRUE, Identity(header.token), "-", "-")
         ELSE IF v = "Token expired"
         THEN AuthResult(FALSE, NoIdentity, "AUTH_TOKEN_EXPIRED", "Token expired")
         ELSE AuthResult(FALSE, NoIdentity, "AUTH_TOKEN_INVALID", "Invalid token")

Authenticate(header, t) ==
    IF header.scheme # "Bearer"
    THEN AuthResult(FALSE, NoIdentity, "AUTH_TOKEN_MISSING", "No token provided")
    ELSE LET v == VerifyToken(header.token, t) IN
         IF v = "ok" THEN AuthResult(TRUE, Identity(header.token), "-", "-")
         ELSE IF v = "Token expired"
         THEN AuthResult(FALSE, NoIdentity, "AUTH_TOKEN_EXPIRED", "Token expired")
         ELSE AuthResult(FALSE, NoIdentity, "AUTH_TOKEN_INVALID", "Invalid token")

\* the answer of authenticate when it does not call next()
Rejected(r, a) == [r EXCEPT !.status = a.status, !.code = a.code, !.error = a.error]

\* tokens no server call returned: a tampered access token, a tampered
\* refresh token, and a refresh token signed with the published default of
\* JWT_SECRET but never recorded
ForgedAccess == Jwt("jwt", UserIdSeq[1], "alice@example.com", "ADMIN", 0, 100 * RefreshTtlSec, AUD_API, "bad")

ForgedRefresh == Jwt("jwt", UserIdSeq[1], "-", "-", 0, 100 * RefreshTtlSec, AUD_REFRESH, "bad")

MintedRefresh == Jwt("jwt", UserIdSeq[1], "-", "-", 2, 2 + RefreshTtlSec, AUD_REFRESH, "good")

HeaderInputs ==
    {NoHeader, Header("Basic", NoToken)}
    \cup {Header("Bearer", t) : t \in clientAccess \cup clientRefresh \cup {Malformed, ForgedAccess}}

\* the headers of the clients that hold a token, and of one that holds none
SessionHeaders == {NoHeader} \cup {Header("Bearer", t) : t \in clientAccess}

RefreshInputs ==
    clientRefresh \cup clientAccess \cup {NoToken, Malformed, ForgedRefresh, MintedRefresh}

(***************************************************************************)
(* POST /auth/refresh                                                      *)
(***************************************************************************)
\* the exchange that spends the refresh token it is given
RefreshSingleUse(token) ==
    LET req == [NoResp EXCEPT !.op = "refresh", !.at = now, !.token = token]
        verified == VerifyRefreshToken(token, now)
        found == FindById(token.userId)
        user == CHOOSE r \in found : TRUE
        newAccessToken == GenerateAccessToken(user.id, user.email, user.role, now)
    IN
    /\ Serving
    /\ UNCHANGED <<users, clientRefresh, now, ticks, inflight, ghost>>
    /\ refresh_tokens' = IF /\ token # NoToken
                            /\ verified = "ok"
                            /\ ValidateRefreshToken(refresh_tokens, token.userId, token, now)
                            /\ found # {}
                         THEN RevokeRefreshToken(refresh_tokens, token.userId, token)
                         ELSE refresh_tokens
    /\ IF token = NoToken THEN
          /\ resp' = Failure(req, ValidationError("Refresh token is required"))
          /\ UNCHANGED clientAccess
       ELSE IF verified # "ok" THEN
          /\ resp' = Failure(req, PlainError(verified))
          /\ UNCHANGED clientAccess
       ELSE IF ~ValidateRefreshToken(refresh_tokens, token.userId, token, now) THEN
          /\ resp' = Failure(req, AuthenticationError("Invalid or revoked refresh token"))
          /\ UNCHANGED clientAccess
       ELSE IF found = {} THEN
          /\ resp' = Failure(req, AuthenticationError("User not found"))
          /\ UNCHANGED clientAccess
       ELSE
          /\ clientAccess' = Keep(clientAccess, newAccessToken)
          /\ resp' = [req EXCEPT !.status = 200, !.accessToken = newAccessToken,
                                 !.handler = TRUE,
                                 !.changed = refresh_tokens' # refresh_tokens,
                                 !.again = /\ resp.op = "refresh"
                                           /\ resp.status = 200
                                           /\ resp.token = token]

Refresh(token) ==
    LET req == [NoResp EXCEPT !.op = "refresh", !.at = now, !.token = token]
        verified == VerifyRefreshToken(token, now)
        found == FindById(token.userId)
        user == CHOOSE r \in found : TRUE
        newAccessToken == GenerateAccessToken(user.id, user.email, user.role, now)
    IN
    /\ Serving
    /\ UNCHANGED <<users, refresh_tokens, clientRefresh, now, ticks, inflight, ghost>>
    /\ IF token = NoToken THEN
          /\ resp' = Failure(req, ValidationError("Refresh token is required"))
          /\ UNCHANGED clientAccess
       ELSE IF verified # "ok" THEN
          /\ resp' = Failure(req, PlainError(verified))
          /\ UNCHANGED clientAccess
       ELSE IF ~ValidateRefreshToken(refresh_tokens, token.userId, token, now) THEN
          /\ resp' = Failure(req, AuthenticationError("Invalid or revoked refresh token"))
          /\ UNCHANGED clientAccess
       ELSE IF found = {} THEN
          /\ resp' = Failure(req, AuthenticationError("User not found"))
          /\ UNCHANGED clientAccess
       ELSE
          /\ clientAccess' = Keep(clientAccess, newAccessToken)
          /\ resp' = [req EXCEPT !.status = 200, !.accessToken = newAccessToken,
                                 !.handler = TRUE,
                                 !.changed = refresh_tokens' # refresh_tokens,
                                 !.again = /\ resp.op = "refresh"
                                           /\ resp.status = 200
                                           /\ resp.token = token]

(***************************************************************************)
(* POST /auth/logout, behind authenticate                                  *)
(***************************************************************************)
Logout(header, token) ==
    LET a == Authenticate(header, now)
        req == [NoResp EXCEPT !.op = "logout", !.at = now, !.header = header]
        rows == RevokeRefreshToken(refresh_tokens, a.user.userId, token)
    IN
    /\ Serving
    /\ UNCHANGED <<users, clientAccess, clientRefresh, now, ticks, inflight>>
    /\ IF ~a.ok THEN
          /\ resp' = Rejected(req, a)
          /\ UNCHANGED <<refresh_tokens, ghost>>
       ELSE
          /\ refresh_tokens' = IF token # NoToken THEN rows ELSE refresh_tokens
          /\ ghost' = IF token # NoToken /\ rows # refresh_tokens
                      THEN [ghost EXCEPT !.loggedOut = @ \cup {token}] ELSE ghost
          /\ resp' = [req EXCEPT !.status = 200, !.token = token, !.user = a.user,
                                 !.handler = TRUE,
                                 !.log = {LogAuthEvent(a.user.userId)},
                                 !.live = \E r \in refresh_tokens :
                                             /\ r.user_id = a.user.userId
                                             /\ r.token_hash = Sha256(token)
                                             /\ ~r.revoked,
                                 !.changed = refresh_tokens' # refresh_tokens]

(***************************************************************************)
(* GET /auth/me, behind authenticate                                       *)
(***************************************************************************)
GetCurrentUser(header) ==
    LET a == Authenticate(header, now)
        req == [NoResp EXCEPT !.op = "me", !.at = now, !.header = header]
        found == FindById(a.user.userId)
        user == CHOOSE r \in found : TRUE
        ran == [req EXCEPT !.user = a.user, !.handler = TRUE]
    IN
    /\ Serving
    /\ UNCHANGED <<users, refresh_tokens, clientAccess, clientRefresh, now, ticks, inflight, ghost>>
    /\ IF ~a.ok THEN resp' = Rejected(req, a)
       ELSE IF found = {} THEN resp' = Failure(ran, AuthenticationError("User not found"))
       ELSE resp' = [ran EXCEPT !.status = 200, !.email = user.email, !.role = user.role]

(***************************************************************************)
(* PUT /auth/password, behind authenticate                                 *)
(***************************************************************************)
ChangePassword(header, currentPassword, newPassword, salt) ==
    LET a == Authenticate(header, now)
        req == [NoResp EXCEPT !.op = "password", !.at = now, !.header = header]
        uid == a.user.userId
        rows == {r \in users : r.id = uid}
        ran == [req EXCEPT !.user = a.user, !.handler = TRUE,
                           !.password = currentPassword.text,
                           !.newPassword = newPassword.text,
                           !.pre = IF rows = {} THEN NoRow ELSE CHOOSE r \in rows : TRUE]
    IN
    /\ Serving
    /\ UNCHANGED <<clientAccess, clientRefresh, now, ticks, inflight>>
    /\ IF ~a.ok THEN
          /\ resp' = Rejected(req, a)
          /\ UNCHANGED <<users, refresh_tokens, ghost>>
       ELSE IF ~PasswordValid(newPassword) THEN
          /\ resp' = Failure(ran, ValidationError("Validation failed"))
          /\ UNCHANGED <<users, refresh_tokens, ghost>>
       ELSE IF ~VerifyPassword(uid, currentPassword) THEN
          /\ resp' = Failure(Logged(ran, LogSecurityEvent("PASSWORD_CHANGE_FAILED",
                                                          Details(uid, "-", NoBody))),
                             AuthenticationError("Current password is incorrect"))
          /\ UNCHANGED <<users, refresh_tokens, ghost>>
       ELSE
          /\ users' = UpdatePassword(users, uid, newPassword, salt)
          /\ refresh_tokens' = RevokeAllRefreshTokens(refresh_tokens, uid)
          /\ ghost' = [ghost EXCEPT !.preChange =
                          @ \cup {t \in clientRefresh : t.userId = uid}]
          /\ resp' = [ran EXCEPT !.status = 200,
                                 !.log = {LogSecurityEvent("PASSWORD_CHANGED",
                                                           Details(uid, "-", NoBody))},
                                 !.changed = users' # users \/ refresh_tokens' # refresh_tokens]

(***************************************************************************)
(* PUT /auth/password as it runs when requests overlap: one step per       *)
(* awaited query.                                                          *)
(***************************************************************************)
\* authenticate, the validation of the new password, then
\* await userModel.verifyPassword(req.user.userId, currentPassword)
ChangeVerify(p, header, currentPassword, newPassword) ==
    LET a == Authenticate(header, now)
        req == [NoResp EXCEPT !.op = "password", !.at = now, !.header = header]
        uid == a.user.userId
        ran == [req EXCEPT !.user = a.user, !.handler = TRUE,
                           !.password = currentPassword.text,
                           !.newPassword = newPassword.text]
    IN
    /\ Serving
    /\ inflight[p].pc = "idle"
    /\ UNCHANGED <<users, refresh_tokens, clientAccess, clientRefresh, now, ticks, ghost>>
    /\ IF ~a.ok THEN
          /\ resp' = Rejected(req, a)
          /\ UNCHANGED inflight
       ELSE IF ~PasswordValid(newPassword) THEN
          /\ resp' = Failure(ran, ValidationError("Validation failed"))
          /\ UNCHANGED inflight
       ELSE IF ~VerifyPassword(uid, currentPassword) THEN
          /\ resp' = Failure(Logged(ran, LogSecurityEvent("PASSWORD_CHANGE_FAILED",
                                                          Details(uid, "-", NoBody))),
                             AuthenticationError("Current password is incorrect"))
          /\ UNCHANGED inflight
       ELSE
          /\ inflight' = [inflight EXCEPT ![p] =
                 [Idle EXCEPT !.pc = "update", !.password = newPassword, !.user = a.user]]
          /\ UNCHANGED resp

\* await userModel.updatePassword(req.user.userId, newPassword)
ChangeUpdate(p, salt) ==
    LET f == inflight[p] IN
    /\ Serving
    /\ f.pc = "update"
    /\ users' = UpdatePassword(users, f.user.userId, f.password, salt)
    /\ inflight' = [inflight EXCEPT ![p] = [f EXCEPT !.pc = "revoke"]]
    /\ UNCHANGED <<refresh_tokens, clientAccess, clientRefresh, now, ticks, resp, ghost>>

\* await userModel.revokeAllRefreshTokens(req.user.userId), then the 200
ChangeRevoke(p) ==
    LET f == inflight[p] IN
    /\ Serving
    /\ f.pc = "revoke"
    /\ refresh_tokens' = RevokeAllRefreshTokens(refresh_tokens, f.user.userId)
    /\ ghost' = [ghost EXCEPT !.preChange =
                    @ \cup {t \in clientRefresh : t.userId = f.user.userId}]
    /\ resp' = [NoResp EXCEPT !.op = "password", !.at = now, !.user = f.user,
                              !.handler = TRUE, !.newPassword = f.password.text,
                              !.status = 200,
                              !.log = {LogSecurityEvent("PASSWORD_CHANGED",
                                                        Details(f.user.userId, "-", NoBody))},
                              !.changed = TRUE]
    /\ inflight' = [inflight EXCEPT ![p] = Idle]
    /\ UNCHANGED <<users, clientAccess, clientRefresh, now, ticks>>

(***************************************************************************)
(* RBAC middleware.                                                        *)
(***************************************************************************)
PERMISSIONS ==
    {"product:create", "product:read", "product:update", "product:delete",
     "order:read", "order:create", "payment:create"}

\* rolePermissions[userRole] || []
rolePermissions(role) ==
    IF role = "ADMIN" THEN {"*"}
    ELSE IF role = "SELLER"
    THEN {"product:create", "product:read", "product:update", "product:delete", "order:read"}
    ELSE IF role = "BUYER"
    THEN {"product:read", "order:create", "order:read", "payment:create"}
    ELSE {}

\* the allow-lists the routes declare with authorize(...)
RouteAllowLists == {{"SELLER", "ADMIN"}, {"BUYER", "ADMIN"}, {"ADMIN"}}

GateResult(pass, status, code, error) ==
    [pass |-> pass, status |-> status, code |-> code, error |-> error, log |-> {}]

\* the refusal of a guard that reports it with logAuthzFailure(userId, ...)
Audited(g, userId) == [g EXCEPT !.log = {LogAuthzFailure(userId)}]

\* authorize with the administrator let through whatever the list
AuthorizeAdminBypass(user, allowedRoles) ==
    IF user = NoIdentity
    THEN Audited(GateResult(FALSE, 401, "AUTH_REQUIRED", "Authentication required"),
                 "unknown")
    ELSE IF user.role # "ADMIN" /\ user.role \notin allowedRoles
    THEN Audited(GateResult(FALSE, 403, "AUTHZ_FORBIDDEN", "Insufficient permissions"),
                 user.userId)
    ELSE GateResult(TRUE, 0, "-", "-")

\* authorize(...allowedRoles)(req, res, next)
Authorize(user, allowedRoles) ==
    IF user = NoIdentity
    THEN Audited(GateResult(FALSE, 401, "AUTH_REQUIRED", "Authentication required"),
                 "unknown")
    ELSE IF user.role \notin allowedRoles
    THEN Audited(GateResult(FALSE, 403, "AUTHZ_FORBIDDEN", "Insufficient permissions"),
                 user.userId)
    ELSE GateResult(TRUE, 0, "-", "-")

\* requirePermission without the wildcard test
RequirePermissionNoWildcard(user, permission) ==
    IF user = NoIdentity
    THEN GateResult(FALSE, 401, "AUTH_REQUIRED", "Authentication required")
    ELSE IF permission \notin rolePermissions(user.role)
    THEN Audited(GateResult(FALSE, 403, "AUTHZ_FORBIDDEN", "Insufficient permissions"),
                 user.userId)
    ELSE GateResult(TRUE, 0, "-", "-")

\* requirePermission(permission)(req, res, next)
RequirePermission(user, permission) ==
    IF user = NoIdentity
    THEN GateResult(FALSE, 401, "AUTH_REQUIRED", "Authentication required")
    ELSE IF "*" \in rolePermissions(user.role)
    THEN GateResult(TRUE, 0, "-", "-")
    ELSE IF permission \notin rolePermissions(user.role)
    THEN Audited(GateResult(FALSE, 403, "AUTHZ_FORBIDDEN", "Insufficient permissions"),
                 user.userId)
    ELSE GateResult(TRUE, 0, "-", "-")

\* requireOwnership(userIdParam)(req, res, next); resourceUserId is the
\* parameter found in req.params, req.query or req.body
RequireOwnership(user, resourceUserId) ==
    IF user = NoIdentity
    THEN GateResult(FALSE, 401, "AUTH_REQUIRED", "Authentication required")
    ELSE IF user.role = "ADMIN"
    THEN GateResult(TRUE, 0, "-", "-")
    ELSE IF user.userId # resourceUserId
    THEN Audited(GateResult(FALSE, 403, "AUTHZ_OWNERSHIP_VIOLATION", "Access denied"),
                 user.userId)
    ELSE GateResult(TRUE, 0, "-", "-")

\* the answer of a guard, or the handler behind it run
Guarded(r, g) ==
    IF g.pass THEN [r EXCEPT !.status = 200, !.handler = TRUE]
    ELSE [r EXCEPT !.status = g.status, !.code = g.code, !.error = g.error,
                   !.log = g.log]

\* req.user as the guards can find it: absent, or some decoded claims
IdentityInputs ==
    {NoIdentity,
     [userId |-> UserIdSeq[1], email |-> "alice@example.com", role |-> "BUYER"],
     [userId |-> UserIdSeq[1], email |-> "alice@example.com", role |-> "SELLER"],
     [userId |-> UserIdSeq[2], email |-> "bob@example.com", role |-> "ADMIN"]}

\* authorize in front of a handler, on a request with or without req.user
AuthorizeCall(user, allowedRoles) ==
    /\ Serving
    /\ resp' = Guarded([NoResp EXCEPT !.op = "authorize", !.at = now, !.user = user,
                                      !.allowed = allowedRoles],
                       Authorize(user, allowedRoles))
    /\ UNCHANGED <<users, refresh_tokens, clientAccess, clientRefresh, now, ticks, inflight, ghost>>

\* requirePermission in front of a handler
RequirePermissionCall(user, permission) ==
    /\ Serving
    /\ resp' = Guarded([NoResp EXCEPT !.op = "permission", !.at = now, !.user = user,
                                      !.permission = permission],
                       RequirePermission(user, permission))
    /\ UNCHANGED <<users, refresh_tokens, clientAccess, clientRefresh, now, ticks, inflight, ghost>>

\* requireOwnership in front of a handler
RequireOwnershipCall(user, resourceUserId) ==
    /\ Serving
    /\ resp' = Guarded([NoResp EXCEPT !.op = "ownership", !.at = now, !.user = user,
                                      !.resource = resourceUserId],
                       RequireOwnership(user, resourceUserId))
    /\ UNCHANGED <<users, refresh_tokens, clientAccess, clientRefresh, now, ticks, inflight, ghost>>

\* a role-gated route: authenticate, authorize(...allowedRoles), handler
GatedRequest(header, allowedRoles) ==
    LET a == Authenticate(header, now)
        req == [NoResp EXCEPT !.op = "gated", !.at = now, !.header = header,
                              !.allowed = allowedRoles]
    IN
    /\ Serving
    /\ resp' = IF ~a.ok THEN Rejected(req, a)
               ELSE Guarded([req EXCEPT !.user = a.user], Authorize(a.user, allowedRoles))
    /\ UNCHANGED <<users, refresh_tokens, clientAccess, clientRefresh, now, ticks, inflight, ghost>>

(***************************************************************************)
(* strictRateLimiter in front of POST /auth/register and POST /auth/login: *)
(* a request is counted when it arrives and refused with 429 when the      *)
(* count of the window exceeds max; with skipSuccessfulRequests the count  *)
(* is taken back when the response has a status below 400.                 *)
(***************************************************************************)
STRICT_WINDOW_MINUTES == 15

STRICT_MAX == 5

\* the store's increment: a new window when the last one has run out
Hit(process, t) ==
    IF t >= process.resetAt
    THEN [process EXCEPT !.hits = 1, !.resetAt = t + STRICT_WINDOW_MINUTES * 60]
    ELSE [process EXCEPT !.hits = @ + 1]

\* skipSuccessfulRequests: the store's decrement after a response below 400
Settled(process, status) ==
    IF status < 400 THEN [process EXCEPT !.hits = @ - 1] ELSE process

\* the limiter's own answer: res.status(429).send(message)
TooManyRequests(r) ==
    [r EXCEPT !.status = 429,
              !.error = "Too many failed attempts, please try again later"]

\* router.post('/register', strictRateLimiter, authController.register)
RoutedRegister(email, p, role, salt) ==
    LET hit == Hit(server, now)
        req == [NoResp EXCEPT !.op = "register", !.at = now, !.email = email,
                              !.password = p.text, !.role = role]
    IN
    /\ server.phase = "listening"
    /\ Elsewhere
    /\ hit.hits <= STRICT_MAX + 1
    /\ IF hit.hits > STRICT_MAX THEN
          /\ resp' = TooManyRequests(req)
          /\ server' = hit
          /\ UNCHANGED <<users, refresh_tokens, clientAccess, clientRefresh, now, ticks,
                         inflight, ghost>>
       ELSE
          /\ RegisterHandler(email, p, role, salt)
          /\ server' = Settled(hit, resp'.status)

\* router.post('/login', strictRateLimiter, authController.login); the
\* answer of the limiter is recorded with the row of the account as it was
RoutedLogin(email, p) ==
    LET hit == Hit(server, now)
        found == FindByEmail(email)
        req == [NoResp EXCEPT !.op = "login", !.at = now, !.email = email,
                              !.password = p.text,
                              !.pre = IF found = {} THEN NoRow ELSE CHOOSE r \in found : TRUE]
    IN
    /\ server.phase = "listening"
    /\ Elsewhere
    /\ hit.hits <= STRICT_MAX + 1
    /\ IF hit.hits > STRICT_MAX THEN
          /\ resp' = TooManyRequests(req)
          /\ server' = hit
          /\ UNCHANGED <<users, refresh_tokens, clientAccess, clientRefresh, now, ticks,
                         inflight, ghost>>
       ELSE
          /\ LoginHandler(email, p)
          /\ server' = Settled(hit, resp'.status)

(***************************************************************************)
(* Product service and order service.  A row keeps the columns a handler   *)
(* decides on: the name and the stock a product body carries, the owner,   *)
(* and is_active.  Ids are given in the order of the inserts.              *)
(***************************************************************************)
MaxItems == 2

ItemIds == 1..MaxItems

ProductBodies ==
    {[name |-> "Lamp", stock |-> 1], [name |-> "Desk", stock |-> 0],
     [name |-> "ab", stock |-> 1]}

\* validateInput(req.body, validationSchemas.product): name of 3 to 200
\* characters, stock an integer from 0 to 100000
ValidateProduct(body) ==
    /\ Len(body.name) >= 3
    /\ Len(body.name) <= 200
    /\ body.stock >= 0
    /\ body.stock <= 100000

\* INSERT INTO products (name, ..., stock, seller_id, ...)
ProductRow(id, body, sellerId) ==
    [id |-> id, name |-> body.name, stock |-> body.stock, seller_id |-> sellerId,
     is_active |-> TRUE]

\* SELECT * FROM products WHERE id = $1 AND is_active = true
ProductFindById(id) == {p \in products : p.id = id /\ p.is_active}

\* UPDATE products SET name = COALESCE($1, name), ..., stock = COALESCE($4, stock)
\* WHERE id = $5 AND is_active = true
ProductUpdate(rows, id, body) ==
    {IF p.id = id /\ p.is_active THEN [p EXCEPT !.name = body.name, !.stock = body.stock]
     ELSE p : p \in rows}

\* UPDATE products SET is_active = false WHERE id = $1
SoftDelete(rows, id) == {IF p.id = id THEN [p EXCEPT !.is_active = FALSE] ELSE p : p \in rows}

\* INSERT INTO orders (user_id, product_id, quantity, ...)
OrderRow(id, userId, productId, quantity) ==
    [id |-> id, user_id |-> userId, product_id |-> productId, quantity |-> quantity,
     status |-> "PENDING"]

\* SELECT * FROM orders WHERE id = $1
OrderFindById(id) == {o \in orders : o.id = id}

\* the owner of the product or of the order a request names, "-" when no
\* such row is found
ProductOwner(id) ==
    IF ProductFindById(id) = {} THEN "-" ELSE (CHOOSE p \in ProductFindById(id) : TRUE).seller_id

OrderOwner(id) ==
    IF OrderFindById(id) = {} THEN "-" ELSE (CHOOSE o \in OrderFindById(id) : TRUE).user_id

\* the error axios rejects with when the product service answers 404: its
\* code is ERR_BAD_REQUEST, and the version of axios decides whether it has
\* the status property errorHandler reads
AxiosError(status) == Err("AxiosError", "Request failed with status code 404", status,
                          "ERR_BAD_REQUEST")

\* the two services write their own tables only
OwnTables ==
    UNCHANGED <<users, refresh_tokens, clientAccess, clientRefresh, now, ticks, inflight,
                ghost, server, browser>>

\* router.post('/', authenticate, authorize(ROLES.SELLER, ROLES.ADMIN), createProduct)
CreateProduct(header, body) ==
    LET a == Authenticate(header, now)
        g == Authorize(a.user, {"SELLER", "ADMIN"})
        req == [NoResp EXCEPT !.op = "product:create", !.at = now, !.header = header]
        ran == [req EXCEPT !.user = a.user, !.handler = TRUE]
        product == ProductRow(Cardinality(products) + 1, body, a.user.userId)
    IN
    /\ OwnTables
    /\ UNCHANGED orders
    /\ Cardinality(products) < MaxItems
    /\ IF ~a.ok THEN
          /\ resp' = Rejected(req, a)
          /\ UNCHANGED products
       ELSE IF ~g.pass THEN
          /\ resp' = Guarded([req EXCEPT !.user = a.user], g)
          /\ UNCHANGED products
       ELSE IF ~ValidateProduct(body) THEN
          /\ resp' = Failure(ran, ValidationError("Validation failed"))
          /\ UNCHANGED products
       ELSE
          /\ products' = products \cup {product}
          /\ resp' = [ran EXCEPT !.status = 201, !.resource = product.seller_id,
                                 !.returned = TRUE, !.changed = TRUE]

\* router.put('/:id', authenticate, authorize(ROLES.SELLER, ROLES.ADMIN), updateProduct)
UpdateProduct(header, id, body) ==
    LET a == Authenticate(header, now)
        g == Authorize(a.user, {"SELLER", "ADMIN"})
        req == [NoResp EXCEPT !.op = "product:update", !.at = now, !.header = header,
                              !.resource = ProductOwner(id)]
        ran == [req EXCEPT !.user = a.user, !.handler = TRUE]
    IN
    /\ OwnTables
    /\ UNCHANGED orders
    /\ IF ~a.ok THEN
          /\ resp' = Rejected(req, a)
          /\ UNCHANGED products
       ELSE IF ~g.pass THEN
          /\ resp' = Guarded([req EXCEPT !.user = a.user], g)
          /\ UNCHANGED products
       ELSE IF ProductFindById(id) = {} THEN
          /\ resp' = Failure(ran, NotFoundError("Product not found"))
          /\ UNCHANGED products
       ELSE IF a.user.role = "SELLER" /\ ProductOwner(id) # a.user.userId THEN
          /\ resp' = Failure(Logged(ran, LogAuthzFailure(a.user.userId)),
                             AuthorizationError("You can only update your own products"))
          /\ UNCHANGED products
       ELSE IF ~ValidateProduct(body) THEN
          /\ resp' = Failure(ran, ValidationError("Validation failed"))
          /\ UNCHANGED products
       ELSE
          /\ products' = ProductUpdate(products, id, body)
          /\ resp' = [ran EXCEPT !.status = 200, !.returned = TRUE,
                                 !.changed = products' # products]

\* router.delete('/:id', authenticate, authorize(ROLES.SELLER, ROLES.ADMIN), deleteProduct)
DeleteProduct(header, id) ==
    LET a == Authenticate(header, now)
        g == Authorize(a.user, {"SELLER", "ADMIN"})
        req == [NoResp EXCEPT !.op = "product:delete", !.at = now, !.header = header,
                              !.resource = ProductOwner(id)]
        ran == [req EXCEPT !.user = a.user, !.handler = TRUE]
    IN
    /\ OwnTables
    /\ UNCHANGED orders
    /\ IF ~a.ok THEN
          /\ resp' = Rejected(req, a)
          /\ UNCHANGED products
       ELSE IF ~g.pass THEN
          /\ resp' = Guarded([req EXCEPT !.user = a.user], g)
          /\ UNCHANGED products
       ELSE IF ProductFindById(id) = {} THEN
          /\ resp' = Failure(ran, NotFoundError("Product not found"))
          /\ UNCHANGED products
       ELSE IF a.user.role = "SELLER" /\ ProductOwner(id) # a.user.userId THEN
          /\ resp' = Failure(Logged(ran, LogAuthzFailure(a.user.userId)),
                             AuthorizationError("You can only delete your own products"))
          /\ UNCHANGED products
       ELSE
          /\ products' = SoftDelete(products, id)
          /\ resp' = [ran EXCEPT !.status = 200, !.changed = products' # products]

\* router.post('/', authenticate, authorize(ROLES.BUYER, ROLES.ADMIN), createOrder);
\* the body names a product and a quantity within the schema
CreateOrder(header, productId, quantity, axiosStatus) ==
    LET a == Authenticate(header, now)
        g == Authorize(a.user, {"BUYER", "ADMIN"})
        req == [NoResp EXCEPT !.op = "order:create", !.at = now, !.header = header]
        ran == [req EXCEPT !.user = a.user, !.handler = TRUE]
        found == ProductFindById(productId)
        product == CHOOSE p \in found : TRUE
        order == OrderRow(Cardinality(orders) + 1, a.user.userId, productId, quantity)
    IN
    /\ OwnTables
    /\ UNCHANGED products
    /\ Cardinality(orders) < MaxItems
    /\ IF ~a.ok THEN
          /\ resp' = Rejected(req, a)
          /\ UNCHANGED orders
       ELSE IF ~g.pass THEN
          /\ resp' = Guarded([req EXCEPT !.user = a.user], g)
          /\ UNCHANGED orders
       ELSE IF found = {} THEN
          /\ resp' = Failure(ran, AxiosError(axiosStatus))
          /\ UNCHANGED orders
       ELSE IF product.stock < quantity THEN
          /\ resp' = Failure(ran, ValidationError("Insufficient stock"))
          /\ UNCHANGED orders
       ELSE
          /\ orders' = orders \cup {order}
          /\ resp' = [ran EXCEPT !.status = 201, !.resource = order.user_id,
                                 !.returned = TRUE, !.changed = TRUE]

\* router.get('/:id', authenticate, getOrderById)
GetOrderById(header, id) ==
    LET a == Authenticate(header, now)
        req == [NoResp EXCEPT !.op = "order:read", !.at = now, !.header = header,
                              !.resource = OrderOwner(id)]
        ran == [req EXCEPT !.user = a.user, !.handler = TRUE]
    IN
    /\ OwnTables
    /\ UNCHANGED <<products, orders>>
    /\ IF ~a.ok THEN resp' = Rejected(req, a)
       ELSE IF OrderFindById(id) = {} THEN resp' = Failure(ran, NotFoundError("Order not found"))
       ELSE IF a.user.role # "ADMIN" /\ OrderOwner(id) # a.user.userId
       THEN resp' = Failure(ran, ValidationError("Access denied"))
       ELSE resp' = [ran EXCEPT !.status = 200, !.returned = TRUE]

(***************************************************************************)
(* The browser: the auth store and one request through an axios instance   *)
(* with the interceptors of setupInterceptors.  The services are the       *)
(* environment of the interceptor: each call is answered with any status.  *)
(* axios hands the merged config of the retried request, _retry included,  *)
(* to the response interceptor again.                                      *)
(***************************************************************************)
\* the counting of a call stops at this many sends of one request
MaxSends == 3

ApiUrls == {"/auth/me", "/products", "/orders"}

Statuses == {200, 401, 403, 500}

\* the browser writes nothing but its own store
BrowserOnly ==
    UNCHANGED <<users, refresh_tokens, clientAccess, clientRefresh, now, ticks, inflight,
                resp, ghost, server, products, orders>>

\* the test that forgets the mark on the request
ShouldRefreshUnmarked(status, retry) == status = 401

\* error.response?.status === 401 && !originalRequest._retry
ShouldRefresh(status, retry) == status = 401 /\ ~retry

\* the finally block of logout(): set({user: null, accessToken: null, ...})
Cleared(store) ==
    [store EXCEPT !.accessToken = "-", !.refreshToken = "-", !.isAuthenticated = FALSE,
                  !.leaving = FALSE]

\* useAuthStore.getState().logout(), not awaited: with a refresh token the
\* POST /auth/logout goes out and the store is cleared when it has ended,
\* without one the store is cleared at once
LogoutCalled(store) ==
    IF store.refreshToken # "-" THEN [store EXCEPT !.leaving = TRUE] ELSE Cleared(store)

\* login() or register() of the store, called with plain axios
StoreLogin(ok) ==
    /\ BrowserOnly
    /\ browser' = IF ok THEN [browser EXCEPT !.accessToken = "a0", !.refreshToken = "r0",
                                             !.isAuthenticated = TRUE]
                  ELSE browser

\* logout() of the store called by the user
StoreLogout ==
    /\ BrowserOnly
    /\ ~browser.leaving
    /\ browser' = LogoutCalled(browser)

\* the POST /auth/logout of logout() has ended, with whatever answer
LogoutDone ==
    /\ BrowserOnly
    /\ browser.leaving
    /\ browser' = Cleared(browser)

\* a call through an instance: the request interceptor attaches the access
\* token of the store
Send(url) ==
    /\ BrowserOnly
    /\ browser.call.pc \in {"idle", "settled"}
    /\ browser' = [browser EXCEPT !.call = [NoCall EXCEPT !.pc = "sent", !.url = url,
                                                          !.bearer = browser.accessToken,
                                                          !.sends = 1]]

\* the answer to the request: the response interceptor up to its await
Respond(status) ==
    LET call == [browser.call EXCEPT !.status = status] IN
    /\ BrowserOnly
    /\ browser.call.pc = "sent"
    /\ IF status < 400 THEN
          browser' = [browser EXCEPT !.call = [call EXCEPT !.pc = "settled",
                                                           !.outcome = "resolved"]]
       ELSE IF ShouldRefresh(status, call.retry) THEN
          IF browser.refreshToken # "-" THEN
             /\ call.refreshes < MaxSends
             /\ browser' = [browser EXCEPT !.call = [call EXCEPT !.retry = TRUE,
                                                              !.refreshes = @ + 1,
                                                              !.pc = "refreshing"]]
          ELSE
             browser' = [LogoutCalled(browser) EXCEPT
                            !.call = [call EXCEPT !.retry = TRUE, !.logouts = @ + 1,
                                                  !.pc = "settled", !.outcome = "rejected"]]
       ELSE
          browser' = [browser EXCEPT !.call = [call EXCEPT !.pc = "settled",
                                                           !.outcome = "rejected"]]

\* the answer to axios.post('/auth/refresh'): the new access token stored
\* and the request sent again, or logout() and the rejection
RefreshAnswer(ok) ==
    LET call == browser.call IN
    /\ BrowserOnly
    /\ call.pc = "refreshing"
    /\ IF ok THEN
          /\ call.sends < MaxSends
          /\ browser' = [browser EXCEPT !.accessToken = "a1",
                                        !.call = [call EXCEPT !.refreshed = "ok",
                                                              !.bearer = "a1",
                                                              !.sends = @ + 1,
                                                              !.pc = "sent"]]
       ELSE
          browser' = [LogoutCalled(browser) EXCEPT
                         !.call = [call EXCEPT !.refreshed = "failed", !.logouts = @ + 1,
                                               !.pc = "settled", !.outcome = "rejected"]]

(***************************************************************************)
(* Sessions: registration, login, refresh, logout and password change,     *)
(* with every token a client holds or forges presented to refresh.         *)
(***************************************************************************)
Next ==
    \/ \E d \in SessionJumps : Tick(d)
    \/ \E x \in AliceRegisters, salt \in Salts : Register(x[1], x[2], x[3], salt)
    \/ \E x \in SessionLogins : Login(x[1], x[2])
    \/ \E token \in RefreshInputs : Refresh(token)
    \/ \E header \in SessionHeaders, token \in clientRefresh \cup {NoToken} :
          Logout(header, token)
    \/ \E header \in SessionHeaders, salt \in Salts :
          ChangePassword(header, PwSecret, PwOther, salt)

Spec == Init /\ [][Next]_vars

(***************************************************************************)
(* Lockout: every login request, with the clock stepping to either side of *)
(* the lock expiry.                                                        *)
(***************************************************************************)
NextLock ==
    \/ \E d \in Jumps : Tick(d)
    \/ \E x \in AliceRegisters, salt \in Salts : Register(x[1], x[2], x[3], salt)
    \/ \E x \in LoginInputs : Login(x[1], x[2])
    \/ \E header \in SessionHeaders, x \in PasswordChangeInputs, salt \in Salts :
          ChangePassword(header, x[1], x[2], salt)

SpecLock == Init /\ [][NextLock]_vars

(***************************************************************************)
(* Bearer tokens: every kind of Authorization header in front of the       *)
(* protected handlers and every access token of a client presented to      *)
(* refresh, with the clock stepping to either side of the expiry of an     *)
(* access token.                                                           *)
(***************************************************************************)
NextGate ==
    \/ \E d \in GateJumps : Tick(d)
    \/ \E x \in AliceRegisters, salt \in Salts : Register(x[1], x[2], x[3], salt)
    \/ \E x \in GateLogins : Login(x[1], x[2])
    \/ \E header \in HeaderInputs, allowedRoles \in RouteAllowLists :
          GatedRequest(header, allowedRoles)
    \/ \E header \in HeaderInputs : GetCurrentUser(header)
    \/ \E header \in HeaderInputs, token \in clientRefresh \cup {NoToken} :
          Logout(header, token)
    \/ \E header \in HeaderInputs, salt \in Salts :
          ChangePassword(header, PwSecret, PwOther, salt)
    \/ \E token \in clientAccess : Refresh(token)

SpecGate == Init /\ [][NextGate]_vars

(***************************************************************************)
(* Role gates: every identity against every allow-list and permission, and *)
(* the registered roles against the allow-lists of the routes.             *)
(***************************************************************************)
NextRbac ==
    \/ \E x \in RegisterInputs, salt \in Salts : Register(x[1], x[2], x[3], salt)
    \/ \E user \in IdentityInputs, allowedRoles \in SUBSET ROLES :
          AuthorizeCall(user, allowedRoles)
    \/ \E user \in IdentityInputs, permission \in PERMISSIONS :
          RequirePermissionCall(user, permission)
    \/ \E user \in IdentityInputs, resourceUserId \in UserIds \cup {"-"} :
          RequireOwnershipCall(user, resourceUserId)
    \/ \E header \in SessionHeaders, allowedRoles \in RouteAllowLists :
          GatedRequest(header, allowedRoles)

SpecRbac == Init /\ [][NextRbac]_vars

(***************************************************************************)
(* Overlapping logins on one account: the queries of the requests in       *)
(* flight interleave in every order.  The clock is counted from the        *)
(* registration of the account.                                            *)
(***************************************************************************)
NextRace ==
    \/ \E d \in RaceJumps : users # {} /\ Tick(d)
    \/ \E salt \in Salts : Register("alice@example.com", PwSecret, "BUYER", salt)
    \/ \E p \in Procs, x \in SessionLogins : LoginFind(p, x[1], x[2])
    \/ \E p \in Procs : LoginVerify(p)
    \/ \E p \in Procs : LoginIncrement(p)
    \/ \E p \in Procs : LoginReset(p)
    \/ \E p \in Procs : LoginIssue(p)

SpecRace == Init /\ [][NextRace]_vars

(***************************************************************************)
(* Accounts: every registration and login body, and the record of a user   *)
(* deactivated.                                                            *)
(***************************************************************************)
NextAccount ==
    \/ \E d \in AccountJumps : Tick(d)
    \/ \E x \in RegisterInputs, salt \in Salts : Register(x[1], x[2], x[3], salt)
    \/ \E x \in LoginInputs : Login(x[1], x[2])
    \/ \E userId \in UserIds : Deactivate(userId)
    \/ \E header \in SessionHeaders : GetCurrentUser(header)

SpecAccount == Init /\ [][NextAccount]_vars


(***************************************************************************)
(* Access tokens: the holders of issued access tokens call the protected   *)
(* routes before, at and after the expiry of their tokens, also after      *)
(* logging out and after changing the password.                            *)
(***************************************************************************)
NextToken ==
    \/ \E d \in TokenJumps : Tick(d)
    \/ \E salt \in Salts : Register("alice@example.com", PwSecret, "BUYER", salt)
    \/ Login("alice@example.com", PwSecret)
    \/ \E header \in SessionHeaders : GetCurrentUser(header)
    \/ \E header \in SessionHeaders, allowedRoles \in RouteAllowLists :
          GatedRequest(header, allowedRoles)
    \/ \E header \in SessionHeaders, token \in clientRefresh \cup {NoToken} :
          Logout(header, token)
    \/ \E header \in SessionHeaders, salt \in Salts :
          ChangePassword(header, PwSecret, PwOther, salt)

SpecToken == Init /\ [][NextToken]_vars

(***************************************************************************)
(* Start of the process in every environment, then registration, login and *)
(* refresh.                                                                *)
(***************************************************************************)
NextStartup ==
    \/ \E databaseReady \in BOOLEAN : Startup(databaseReady)
    \/ \E salt \in Salts : Register("alice@example.com", PwSecret, "BUYER", salt)
    \/ \E x \in SessionLogins : Login(x[1], x[2])
    \/ \E token \in clientRefresh \cup {NoToken, Malformed, ForgedRefresh} : Refresh(token)

SpecStartup == InitStartup /\ [][NextStartup]_vars

(***************************************************************************)
(* The routes of one client behind strictRateLimiter: an account is        *)
(* registered and logged into with the right and with a wrong password.    *)
(***************************************************************************)
NextRouted ==
    \/ \E d \in Jumps : Tick(d)
    \/ \E salt \in Salts :
          users = {} /\ RoutedRegister("alice@example.com", PwSecret, "BUYER", salt)
    \/ \E x \in SessionLogins : RoutedLogin(x[1], x[2])

SpecRouted == Init /\ [][NextRouted]_vars

\* the registration bodies that pass validation
MarketRegisters ==
    {x \in RegisterInputs : IsEmail(x[1]) /\ PasswordValid(x[2]) /\ x[3] \in ROLES}

(***************************************************************************)
(* The browser signs in and out and sends requests that the services       *)
(* answer with any status.  Every call axios makes ends: with a response,  *)
(* an error or the timeout of the instance.                                *)
(***************************************************************************)
NextBrowser ==
    \/ \E ok \in BOOLEAN : StoreLogin(ok)
    \/ StoreLogout
    \/ LogoutDone
    \/ \E url \in ApiUrls : Send(url)
    \/ \E status \in Statuses : Respond(status)
    \/ \E ok \in BOOLEAN : RefreshAnswer(ok)

SpecBrowser == Init /\ [][NextBrowser]_vars

SpecBrowserFair ==
    /\ SpecBrowser
    /\ WF_vars(\E status \in Statuses : Respond(status))
    /\ WF_vars(\E ok \in BOOLEAN : RefreshAnswer(ok))
    /\ WF_vars(LogoutDone)

(***************************************************************************)
(* A deactivated account: the holder of its password and of the tokens it  *)
(* was issued keeps calling login, refresh, me and the password change.    *)
(***************************************************************************)
NextDeactivated ==
    \/ \E salt \in Salts : Register("alice@example.com", PwSecret, "BUYER", salt)
    \/ \E x \in SessionLogins : Login(x[1], x[2])
    \/ \E userId \in UserIds : Deactivate(userId)
    \/ \E token \in clientRefresh : Refresh(token)
    \/ \E header \in SessionHeaders : GetCurrentUser(header)
    \/ \E header \in SessionHeaders, x \in PasswordChangeInputs, salt \in Salts :
          ChangePassword(header, x[1], x[2], salt)

SpecDeactivated == Init /\ [][NextDeactivated]_vars

(***************************************************************************)
(* A password change overlapping logins on the same account: the queries   *)
(* of the requests in flight interleave in every order.                    *)
(***************************************************************************)
NextChange ==
    \/ \E salt \in Salts : Register("alice@example.com", PwSecret, "BUYER", salt)
    \/ \E p \in Procs, x \in SessionLogins : LoginFind(p, x[1], x[2])
    \/ \E p \in Procs : LoginVerify(p)
    \/ \E p \in Procs : LoginIncrement(p)
    \/ \E p \in Procs : LoginReset(p)
    \/ \E p \in Procs : LoginIssue(p)
    \/ \E p \in Procs, header \in SessionHeaders : ChangeVerify(p, header, PwSecret, PwOther)
    \/ \E p \in Procs, salt \in Salts : ChangeUpdate(p, salt)
    \/ \E p \in Procs : ChangeRevoke(p)

SpecChange == Init /\ [][NextChange]_vars

(***************************************************************************)
(* Two accounts: each holder of an access token logs out presenting any    *)
(* refresh token issued, its own or the other user's, and the refresh      *)
(* tokens are then exchanged.                                              *)
(***************************************************************************)
NextLogout ==
    \/ \E x \in MarketRegisters, salt \in Salts : Register(x[1], x[2], x[3], salt)
    \/ \E x \in GateLogins : Login(x[1], x[2])
    \/ \E header \in SessionHeaders, token \in clientRefresh \cup {NoToken} :
          Logout(header, token)
    \/ \E token \in clientRefresh : Refresh(token)

SpecLogout == Init /\ [][NextLogout]_vars

(***************************************************************************)
(* Overlapping registrations: the two queries of the requests in flight    *)
(* interleave in every order.                                              *)
(***************************************************************************)
NextSignup ==
    \/ \E p \in Procs, x \in RegisterInputs : RegisterFind(p, x[1], x[2], x[3])
    \/ \E p \in Procs, salt \in Salts : RegisterCreate(p, salt)

SpecSignup == Init /\ [][NextSignup]_vars

(***************************************************************************)
(* Marketplace: registered sellers, buyers and administrators create,      *)
(* change and remove products, place orders and read them by id, their own *)
(* and those of others.                                                    *)
(***************************************************************************)
NextMarket ==
    \/ \E x \in MarketRegisters, salt \in Salts : Register(x[1], x[2], x[3], salt)
    \/ \E header \in SessionHeaders, body \in ProductBodies : CreateProduct(header, body)
    \/ \E header \in SessionHeaders, id \in ItemIds, body \in ProductBodies :
          UpdateProduct(header, id, body)
    \/ \E header \in SessionHeaders, id \in ItemIds : DeleteProduct(header, id)
    \/ \E header \in SessionHeaders, id \in ItemIds, axiosStatus \in {NULL, 404} :
          CreateOrder(header, id, 1, axiosStatus)
    \/ \E header \in SessionHeaders, id \in ItemIds : GetOrderById(header, id)
    \/ \E user \in IdentityInputs, resourceUserId \in UserIds :
          RequireOwnershipCall(user, resourceUserId)

SpecMarket == Init /\ [][NextMarket]_vars

(***************************************************************************)
(* Properties.                                                             *)
(***************************************************************************)
\* the facts jwt.verify establishes about a token presented at time t
WellSigned(token) == token.typ = "jwt" /\ token.sig = "good"

Verifies(token, aud, t) ==
    /\ WellSigned(token)
    /\ t < token.exp
    /\ token.aud = aud
    /\ token.iss = ISSUER

\* the ledger holds a live row for the token at time t
LedgerHolds(token, t) ==
    \E r \in refresh_tokens : /\ r.user_id = token.userId
                              /\ r.token_hash = Sha256(token)
                              /\ ~r.revoked
                              /\ r.expires_at > t

\* the row the request was about, as it is stored now
Stored(row) == {r \in users : r.id = row.id}

NoTokens(r) == r.accessToken = NoToken /\ r.refreshToken = NoToken

\* C1: a refresh token that a logout has revoked is never again exchanged
\* by refresh, whatever requests came in between.
C1_RevokedTokenNeverRefreshes ==
    ~(resp.op = "refresh" /\ resp.status = 200 /\ resp.token \in ghost.loggedOut)

\* C2: after five consecutive wrong-password logins on an account, every
\* login that names the account and carries a password, made before the
\* fifth failure plus the lock duration, is answered 401 'locked' without
\* tokens, the correct password included.
C2_LockedWhileWindowOpen ==
    (/\ resp.op = "login"
     /\ resp.pre # NoRow
     /\ resp.consecBefore >= MAX_FAILED_ATTEMPTS
     /\ resp.at < resp.fifthAtBefore + LockDurationSec)
    => (/\ resp.status = 401
        /\ resp.error = "Account is temporarily locked"
        /\ NoTokens(resp))

\* the correct password refused one second before the lock expires
C2_Witness ==
    /\ resp.op = "login"
    /\ resp.consecBefore >= MAX_FAILED_ATTEMPTS
    /\ resp.at = resp.fifthAtBefore + LockDurationSec - 1
    /\ resp.pre.password_hash.key = Pbkdf2(resp.password, resp.pre.password_hash.salt)
    /\ resp.error = "Account is temporarily locked"

\* the lock seen by a login had expired
LockExpired(r) == r.pre.locked_until # NULL /\ r.pre.locked_until <= r.at

\* C3: a single wrong-password login on an account whose lock has expired
\* does not lock the account again.
C3_OneFailureAfterExpiryDoesNotLock ==
    (/\ resp.op = "login"
     /\ LockExpired(resp)
     /\ resp.error = "Invalid credentials")
    => \A u \in Stored(resp.pre) : ~IsLocked(u, resp.at)

\* C4: a login with the correct password on an account whose lock has
\* expired succeeds with tokens and leaves the counter at 0 and the lock
\* expiry cleared.
C4_LoginAfterExpirySucceeds ==
    (/\ resp.op = "login"
     /\ LockExpired(resp)
     /\ resp.pre.password_hash.key = Pbkdf2(resp.password, resp.pre.password_hash.salt))
    => (/\ resp.status = 200
        /\ resp.accessToken # NoToken
        /\ resp.refreshToken # NoToken
        /\ \A u \in Stored(resp.pre) :
              u.failed_login_attempts = 0 /\ u.locked_until = NULL)

C4_Witness ==
    /\ resp.op = "login"
    /\ LockExpired(resp)
    /\ resp.pre.failed_login_attempts >= MAX_FAILED_ATTEMPTS
    /\ resp.status = 200
    /\ \E u \in Stored(resp.pre) : u.locked_until = NULL

\* C5: after a password change of a user, no refresh token issued to that
\* user before the change is exchanged by refresh.
C5_PreChangeTokenNeverRefreshes ==
    ~(resp.op = "refresh" /\ resp.status = 200 /\ resp.token \in ghost.preChange)

\* C6: refresh hands out an access token only for a token that verifies as
\* a refresh token and has a live ledger row, and a token that verifies but
\* has no live row is answered with the 401 of AuthenticationError.
C6_RefreshNeedsBothChecks ==
    resp.op = "refresh" =>
       /\ (resp.status = 200 \/ resp.accessToken # NoToken)
             => (Verifies(resp.token, AUD_REFRESH, resp.at) /\ LedgerHolds(resp.token, resp.at))
       /\ (Verifies(resp.token, AUD_REFRESH, resp.at) /\ ~LedgerHolds(resp.token, resp.at))
             => (/\ resp.status = 401
                 /\ resp.code = "AUTHENTICATION_ERROR"
                 /\ resp.accessToken = NoToken)

\* a token with a good signature and a revoked row refused
C6_Witness ==
    /\ resp.op = "refresh"
    /\ Verifies(resp.token, AUD_REFRESH, resp.at)
    /\ \E r \in refresh_tokens : r.token_hash = Sha256(resp.token) /\ r.revoked
    /\ ~LedgerHolds(resp.token, resp.at)
    /\ resp.status = 401

\* C7: a caller whose role is ADMIN passes every role gate, whatever the
\* allow-list.
C7_AdminPassesEveryGate ==
    (resp.op \in {"authorize", "permission", "gated"} /\ resp.user.role = "ADMIN")
    => resp.handler

\* C7 as amended: ADMIN passes requirePermission for every permission and
\* passes authorize exactly when the allow-list names ADMIN, which the
\* allow-list of every route does.
C7_AdminPassesWhereNamed ==
    resp.user.role = "ADMIN" =>
       /\ resp.op = "permission" => resp.handler
       /\ resp.op = "authorize" => (resp.handler <=> "ADMIN" \in resp.allowed)
       /\ (resp.op = "gated" /\ resp.allowed \in RouteAllowLists) => resp.handler

C7_Witness ==
    /\ resp.op = "authorize"
    /\ resp.user.role = "ADMIN"
    /\ "ADMIN" \notin resp.allowed
    /\ resp.status = 403

\* C8: authorize runs the handler exactly when the role of the identity is
\* in the allow-list, answers 401 without an identity and 403
\* AUTHZ_FORBIDDEN for a role outside the list.
C8_AuthorizeIsMembership ==
    resp.op = "authorize" =>
       /\ resp.handler <=> (resp.user # NoIdentity /\ resp.user.role \in resp.allowed)
       /\ resp.user = NoIdentity => resp.status = 401
       /\ (resp.user # NoIdentity /\ resp.user.role \notin resp.allowed)
             => (resp.status = 403 /\ resp.code = "AUTHZ_FORBIDDEN")

\* a BUYER stopped in front of a {SELLER, ADMIN} operation
C8_Witness ==
    /\ resp.op = "authorize"
    /\ resp.user.role = "BUYER"
    /\ resp.allowed = {"SELLER", "ADMIN"}
    /\ resp.status = 403
    /\ ~resp.handler

Protected == {"logout", "me", "password", "gated"}

HasBearer(r) == r.header.scheme = "Bearer"

Refused(r, code) == r.status = 401 /\ r.code = code /\ ~r.handler

\* C9: a protected handler runs only for a verified bearer access token;
\* without a Bearer header the answer is 401 AUTH_TOKEN_MISSING, for an
\* expired token 401 AUTH_TOKEN_EXPIRED, for any other token that does not
\* verify 401 AUTH_TOKEN_INVALID, and the handler does not run.
C9_HandlerOnlyBehindAuthenticate ==
    resp.op \in Protected =>
       /\ resp.handler => (HasBearer(resp) /\ Verifies(resp.header.token, AUD_API, resp.at))
       /\ ~HasBearer(resp) => Refused(resp, "AUTH_TOKEN_MISSING")
       /\ (HasBearer(resp) /\ WellSigned(resp.header.token)
             /\ resp.at >= resp.header.token.exp)
             => Refused(resp, "AUTH_TOKEN_EXPIRED")
       /\ (HasBearer(resp) /\ ~Verifies(resp.header.token, AUD_API, resp.at)
             /\ ~(WellSigned(resp.header.token) /\ resp.at >= resp.header.token.exp))
             => Refused(resp, "AUTH_TOKEN_INVALID")

\* an access token the server issued, refused once it has expired
C9_Witness ==
    /\ resp.op \in Protected
    /\ resp.header.token \in clientAccess
    /\ resp.at >= resp.header.token.exp
    /\ Refused(resp, "AUTH_TOKEN_EXPIRED")

\* C10: refresh answers a supplied token with 200 or 401 only.
C10_RefreshAnswers200Or401 ==
    (resp.op = "refresh" /\ resp.token # NoToken) => resp.status \in {200, 401}

\* C11: whatever the interleaving of overlapping logins, no login answers
\* 200 with tokens after verifying its password at a moment when the stored
\* row of the account was locked.
C11_NoLoginSucceedsWhileLocked ==
    ~(resp.op = "login" /\ resp.status = 200 /\ resp.lockedAtVerify)

\* C12: the stored failure counter equals the number of failures recorded
\* since the last reset, whatever the overlap of the requests, and from the
\* fifth on the lock expiry is set, no earlier than the fifth failure plus
\* the lock duration.
C12_NoFailureLost ==
    \A u \in users :
       /\ u.failed_login_attempts = ghost.consec[u.id]
       /\ u.failed_login_attempts >= MAX_FAILED_ATTEMPTS
             => (/\ u.locked_until # NULL
                 /\ u.locked_until >= ghost.fifthAt[u.id] + LockDurationSec)

\* a failure recorded while another request waited to record its own, the
\* counter past the threshold
C12_Witness ==
    /\ resp.op = "login"
    /\ resp.error = "Invalid credentials"
    /\ resp.overlap >= 1
    /\ \E u \in users : /\ u.email = resp.email
                        /\ u.failed_login_attempts > MAX_FAILED_ATTEMPTS
                        /\ u.locked_until = resp.at + LockDurationSec

\* C13: a logout revokes the presented refresh token only: no field of a
\* user row changes, every other refresh token keeps its standing in the
\* ledger, and the token that the login just before returned for the second
\* time, the first still live, stays live for the call that is not logged
\* out.
C13_LogoutRevokesOnlyPresented ==
    [][\A header \in SessionHeaders, token \in clientRefresh :
          Logout(header, token) =>
             /\ users' = users
             /\ \A other \in clientRefresh \ {token} :
                   LedgerHolds(other, now)' = LedgerHolds(other, now)
             /\ (resp.op = "login" /\ resp.shared /\ resp.refreshToken = token)
                   => LedgerHolds(token, now)']_vars

C15_LoginReturnsNewTokens ==
    (resp.op = "login" /\ resp.status = 200) => ~resp.again

\* the body of a register request meets what the interface asks of it: a
\* well-formed address, a password of 8 to 128 characters with lower case,
\* upper case and digit, a role of the enumeration
WellFormedBody(r) ==
    /\ IsEmail(r.email)
    /\ r.role \in {"ADMIN", "SELLER", "BUYER"}
    /\ \E x \in RegisterInputs :
          /\ x[2].text = r.password
          /\ x[2].len >= 8 /\ x[2].len <= 128
          /\ x[2].lower /\ x[2].upper /\ x[2].digit

\* C16: a login with the email string and the password of a registration
\* that was answered 201 succeeds while the account is active, not locked
\* and its password unchanged, and GET me for that account reports the
\* email, as normalised, and the role of the registration.
C16_RegisteredCredentialsLogIn ==
    \A g \in ghost.registered :
       /\ (/\ resp.op = "login"
           /\ resp.email = g.email
           /\ resp.password = g.password
           /\ \E u \in users : /\ u.id = g.id
                               /\ u.is_active
                               /\ ~IsLocked(u, resp.at)
                               /\ u.password_hash.key = Pbkdf2(g.password, u.password_hash.salt))
             => resp.status = 200
       /\ (resp.op = "me" /\ resp.status = 200 /\ resp.user.userId = g.id)
             => (resp.email = NormalizeEmail(g.email) /\ resp.role = g.role)

\* C17: a register request with a well-formed body whose email is already
\* that of a user row, whatever the state of the row, is answered 409
\* without tokens, and no second row with that email comes to exist.
C17_ExistingEmailConflicts ==
    resp.op = "register" =>
       /\ (/\ WellFormedBody(resp)
           /\ ~resp.changed
           /\ \E u \in users : u.email = NormalizeEmail(resp.email))
             => (resp.status = 409 /\ resp.code = "CONFLICT" /\ NoTokens(resp))
       /\ Cardinality({u \in users : u.email = NormalizeEmail(resp.email)}) <= 1

\* C18: a register request whose email, password or role fails validation
\* is answered 400 VALIDATION_ERROR without tokens and leaves the user
\* table and the ledger as they were.
C18_InvalidBodyRejectedFirst ==
    (resp.op = "register" /\ ~WellFormedBody(resp))
    => (/\ resp.status = 400
        /\ resp.code = "VALIDATION_ERROR"
        /\ ~resp.changed
        /\ NoTokens(resp)
        /\ \A g \in ghost.registered : g.email # resp.email \/ g.password # resp.password
                                           \/ g.role # resp.role)

\* a role outside the enumeration refused with an account already stored
C18_Witness ==
    /\ resp.op = "register"
    /\ resp.role = "GUEST"
    /\ resp.status = 400
    /\ users # {}
    /\ \A u \in users : u.role \in ROLES

\* the current password of a change request does not match the hash that
\* was stored when the request came in
WrongCurrent(r) ==
    r.pre.password_hash.key # Pbkdf2(r.password, r.pre.password_hash.salt)

\* the new password of a change request meets the complexity rule
NewPasswordComplex(r) ==
    \E x \in PasswordChangeInputs :
       /\ x[2].text = r.newPassword
       /\ x[2].len >= 8 /\ x[2].len <= 128
       /\ x[2].lower /\ x[2].upper /\ x[2].digit

\* C19: a change-password request behind a verified access token whose
\* current password is wrong is answered 401 and changes neither the user
\* table nor the ledger.
C19_WrongCurrentAnswers401 ==
    (resp.op = "password" /\ resp.handler /\ WrongCurrent(resp))
    => (/\ resp.status = 401
        /\ ~resp.changed
        /\ \A u \in Stored(resp.pre) : u = resp.pre)

\* C19 as amended: with a wrong current password the request changes
\* neither the user table nor the ledger; it is answered 401 'Current
\* password is incorrect' when the new password passes validation, and 400
\* VALIDATION_ERROR when it does not, the new password being validated
\* first.
C19_WrongCurrentChangesNothing ==
    (resp.op = "password" /\ resp.handler /\ WrongCurrent(resp))
    => (/\ ~resp.changed
        /\ \A u \in Stored(resp.pre) : u = resp.pre
        /\ NewPasswordComplex(resp)
              => (/\ resp.status = 401
                  /\ resp.code = "AUTHENTICATION_ERROR"
                  /\ resp.error = "Current password is incorrect")
        /\ ~NewPasswordComplex(resp)
              => (resp.status = 400 /\ resp.code = "VALIDATION_ERROR"))

\* a wrong current password refused, the refresh token of the user still
\* live
C19_Witness ==
    /\ resp.op = "password"
    /\ resp.handler
    /\ WrongCurrent(resp)
    /\ NewPasswordComplex(resp)
    /\ resp.status = 401
    /\ \E r \in refresh_tokens : r.user_id = resp.user.userId /\ ~r.revoked

\* C20: an access token presented to refresh is never exchanged, and a
\* refresh token presented as bearer token is answered 401 by authenticate
\* without the handler running.
C20_TokenKindsNotInterchangeable ==
    /\ (resp.op = "refresh" /\ resp.token.aud = AUD_API)
          => (resp.status \notin {200, 201} /\ resp.accessToken = NoToken /\ ~resp.handler)
    /\ (resp.op \in Protected /\ HasBearer(resp) /\ resp.header.token.aud = AUD_REFRESH)
          => (resp.status = 401 /\ ~resp.handler)

\* an access token that authenticate would accept, refused by refresh
C20_Witness ==
    /\ resp.op = "refresh"
    /\ resp.token \in clientAccess
    /\ Verifies(resp.token, AUD_API, resp.at)
    /\ resp.status # 200
    /\ resp.accessToken = NoToken

\* the identity a row of the credential store stands for
RowIdentity(r) == [userId |-> r.id, email |-> r.email, role |-> r.role]

\* C21: an access token issued for (userId, email, role) yields exactly
\* that identity when verified before its expiry, and is refused as
\* expired, not as invalid, when verified after its expiry.
C21_AccessTokenRoundTrip ==
    (resp.op \in Protected /\ HasBearer(resp) /\ resp.header.token \in clientAccess) =>
       /\ resp.at < resp.header.token.exp
             => /\ resp.user \in {RowIdentity(r) : r \in users}
                /\ resp.user.userId = resp.header.token.userId
       /\ resp.at > resp.header.token.exp
             => (Refused(resp, "AUTH_TOKEN_EXPIRED") /\ resp.error = "Token expired")

\* an issued access token presented one second after its expiry
C21_Witness ==
    /\ resp.op \in Protected
    /\ resp.header.token \in clientAccess
    /\ resp.at = resp.header.token.exp + 1
    /\ resp.code = "AUTH_TOKEN_EXPIRED"

\* status, error code and message of a response
Answer(r) == [status |-> r.status, code |-> r.code, error |-> r.error]

\* C22: a login with an unknown email is answered with the same status,
\* error code and message as a login with a known email of an unlocked
\* account and a wrong password.
C22_LoginHidesEmailExistence ==
    (resp.op = "login" /\ resp.email # "" /\ resp.password # "") =>
       /\ resp.pre = NoRow
             => Answer(resp) = [status |-> 401, code |-> "AUTHENTICATION_ERROR",
                                error |-> "Invalid credentials"]
       /\ (resp.pre # NoRow /\ ~IsLocked(resp.pre, resp.at) /\ WrongCurrent(resp))
             => Answer(resp) = [status |-> 401, code |-> "AUTHENTICATION_ERROR",
                                error |-> "Invalid credentials"]

\* a login with an address nobody registered, while another account exists
C22_Witness ==
    /\ resp.op = "login"
    /\ resp.password # ""
    /\ resp.pre = NoRow
    /\ users # {}
    /\ resp.status = 401

\* the requests that pass through authenticate or one of the role guards
GuardedOps == Protected \cup {"authorize", "permission", "ownership"}

\* C23: every 401 or 403 that authenticate, authorize, requirePermission or
\* requireOwnership answers leaves an authorization-failure event in the
\* log that carries the actor id, or 'unknown' when the request has no
\* identity.
C23_GuardRefusalsAudited ==
    (resp.op \in GuardedOps /\ resp.status \in {401, 403} /\ ~resp.handler) =>
       \E e \in resp.log :
          /\ e.event = "AUTHZ_FAILURE"
          /\ e.details.userId = IF resp.user = NoIdentity THEN "unknown" ELSE resp.user.userId

\* the log record holds the text as it was submitted
Mentions(e, text) ==
    /\ text \notin {"", "-"}
    /\ \/ e.details.password = text
       \/ e.details.body.password = text
       \/ e.details.body.newPassword = text

\* C24: no log record written while a register, login or change-password
\* request is handled, whether it succeeds or fails, holds a submitted
\* password, current or new, in clear text.
C24_NoClearTextPasswordLogged ==
    resp.op \in {"register", "login", "password"} =>
       \A e \in resp.log : ~Mentions(e, resp.password) /\ ~Mentions(e, resp.newPassword)

\* C25: every ledger row holds the SHA-256 digest of a refresh token handed
\* to a client and never the token itself, whatever register, login,
\* refresh, logout and change-password requests came before.
C25_LedgerHoldsOnlyHashes ==
    \A r \in refresh_tokens :
       /\ r.token_hash[1] = "sha256"
       /\ \E t \in clientRefresh : r.token_hash = Sha256(t)

\* rows written by a login and revoked by a password change
C25_Witness ==
    /\ resp.op = "password"
    /\ resp.status = 200
    /\ \E r \in refresh_tokens :
          /\ r.revoked
          /\ r.user_id = resp.user.userId
          /\ \E t \in clientRefresh : r.token_hash = Sha256(t)

\* C26: an error that is none of the typed errors is answered 500 with a
\* generic message and code that do not depend on the error, and without
\* a stack trace.
C26_UnexpectedErrorAnsweredGenerically ==
    resp.status = 500 =>
       /\ resp.error = "Internal server error"
       /\ resp.code = "INTERNAL_ERROR"
       /\ ~resp.stack

\* C27: a process whose signing secret is the development default, set or
\* left to apply, while NODE_ENV is production never comes to listen.
C27_NoProductionStartOnDefaultSecret ==
    (server.NODE_ENV = "production" /\ JwtSecret(server) = DEFAULT_JWT_SECRET)
       => server.phase # "listening"

\* C28: a successful refresh returns a new access token and no refresh
\* token, and adds, revokes or replaces no ledger row, so that the ledger
\* still holds the token for the next exchange.
C28_RefreshLeavesLedger ==
    (resp.op = "refresh" /\ resp.status = 200) =>
       /\ resp.accessToken # NoToken
       /\ resp.refreshToken = NoToken
       /\ ~resp.changed
       /\ LedgerHolds(resp.token, resp.at)

\* the second of two successive exchanges of one refresh token
C28_Witness ==
    /\ resp.op = "refresh"
    /\ resp.status = 200
    /\ resp.again
    /\ resp.accessToken \in clientAccess

\* C29: an issued access token passes authenticate at every time before
\* its expiry, whatever logout, password change or revocation of refresh
\* tokens came after it was issued.
C29_AccessTokenTrustedUntilExpiry ==
    (/\ resp.op \in Protected
     /\ HasBearer(resp)
     /\ resp.header.token \in clientAccess
     /\ resp.at < resp.header.token.exp)
    => (/\ resp.user = Identity(resp.header.token)
        /\ resp.code \notin {"AUTH_TOKEN_MISSING", "AUTH_TOKEN_EXPIRED", "AUTH_TOKEN_INVALID"})

\* the token of a user whose refresh tokens are all revoked and whose
\* password was changed, accepted by GET /auth/me
C29_Witness ==
    /\ resp.op = "me"
    /\ resp.status = 200
    /\ resp.header.token \in clientAccess
    /\ \E r \in refresh_tokens : r.user_id = resp.user.userId
    /\ \A r \in refresh_tokens : r.user_id = resp.user.userId => r.revoked
    /\ \E u \in users : /\ u.id = resp.user.userId
                        /\ u.password_hash = HashPassword(PwOther, u.password_hash.salt)

\* C30: over POST /auth/login behind the route's rate limiter, a wrong
\* password on the account while it is not locked is answered 401
\* 'Invalid credentials', the fifth time as well, and the attempt that
\* follows inside the lock window is answered 401 'Account is temporarily
\* locked', also with the correct password.
C30_SixthAttemptAnsweredLocked ==
    (resp.op = "login" /\ resp.pre # NoRow) =>
       /\ (~IsLocked(resp.pre, resp.at) /\ WrongCurrent(resp))
             => (resp.status = 401 /\ resp.error = "Invalid credentials")
       /\ IsLocked(resp.pre, resp.at)
             => (resp.status = 401 /\ resp.error = "Account is temporarily locked")

\* C31: every user record that a registration created is still there, with
\* the id, the email and the role it was created with, after any sequence
\* of register, login, refresh, logout and change-password requests.
C31_IdentityColumnsImmutable ==
    \A g \in ghost.registered :
       \E u \in users : /\ u.id = g.id
                         /\ u.email = NormalizeEmail(g.email)
                         /\ u.role = g.role

\* a record that a login and a password change have written to
C31_Witness ==
    /\ resp.op = "password"
    /\ resp.status = 200
    /\ \E g \in ghost.registered, u \in users :
          /\ u.id = g.id
          /\ u.id = resp.user.userId
          /\ u.last_login # NULL
          /\ u.password_hash # resp.pre.password_hash

\* C32: whenever an authenticated caller who is not ADMIN targets a resource
\* owned by another user (requireOwnership, product update and delete,
\* order read by id) the answer is 403 and the resource is neither returned
\* nor changed, and the ownership test never refuses an ADMIN.
OwnershipOps == {"ownership", "product:update", "product:delete", "order:read"}

C32_OwnershipMismatchForbidden ==
    (resp.op \in OwnershipOps /\ resp.user # NoIdentity /\ resp.resource # "-") =>
       IF resp.user.role = "ADMIN"
       THEN resp.status # 403 /\ resp.error # "Access denied"
       ELSE resp.resource # resp.user.userId =>
               /\ resp.status = 403
               /\ ~resp.returned
               /\ ~resp.changed

\* C33: when registrations for one email overlap, one user record with that
\* email exists afterwards, one request is answered 201 and every other one
\* 409, the answers of register being 201, 400 or 409.
C33_OverlappingRegistersOneCreated ==
    /\ \A a, b \in users : a.email = b.email => a = b
    /\ \A a, b \in ghost.registered :
          NormalizeEmail(a.email) = NormalizeEmail(b.email) => a.id = b.id
    /\ resp.op = "register" => resp.status \in {201, 400, 409}

\* C34: a login answered 200 leaves the counter of the user at 0 and the
\* lock expiry empty, and an account with fewer than 5 wrong-password
\* answers since its last successful login (or its registration) carries
\* exactly that many failures and no lock.
C34_SuccessResetsLockout ==
    /\ (resp.op = "login" /\ resp.status = 200) =>
          \A u \in users : u.id = resp.user.userId =>
             u.failed_login_attempts = 0 /\ u.locked_until = NULL
    /\ \A u \in users :
          ghost.consec[u.id] < MAX_FAILED_ATTEMPTS =>
             u.failed_login_attempts = ghost.consec[u.id] /\ u.locked_until = NULL

\* the fourth wrong password in a row after a successful login
C34_Witness ==
    /\ resp.op = "login"
    /\ resp.status = 401
    /\ resp.consecBefore = MAX_FAILED_ATTEMPTS - 2
    /\ resp.pre.last_login # NULL
    /\ \E u \in users : /\ u.id = resp.pre.id
                         /\ u.failed_login_attempts = MAX_FAILED_ATTEMPTS - 1
                         /\ u.locked_until = NULL

\* C35: in every state, whatever the order in which the queries of
\* overlapping logins ran, a user record has a lock expiry exactly when its
\* failure counter is 5 or more.
C35_LockSetIffCounterAtThreshold ==
    \A u \in users :
       (u.locked_until # NULL) <=> (u.failed_login_attempts >= MAX_FAILED_ATTEMPTS)

\* two overlapping logins both recorded a failure past the threshold
C35_Witness ==
    \E u \in users : /\ u.failed_login_attempts > MAX_FAILED_ATTEMPTS
                      /\ u.locked_until = now + LockDurationSec
                      /\ resp.op = "login"
                      /\ resp.lockedAtVerify

\* C36: a login refused because the account is locked writes nothing: the
\* user record and the ledger of refresh tokens are after the request what
\* they were before it.
C36_LockedLoginWritesNothing ==
    [][(resp'.op = "login" /\ resp'.error = "Account is temporarily locked") =>
          users' = users /\ refresh_tokens' = refresh_tokens]_vars

\* a login answered with the lock, the record as the handler read it
C36_Witness ==
    /\ resp.op = "login"
    /\ resp.error = "Account is temporarily locked"
    /\ resp.at = now
    /\ resp.pre \in users
    /\ IsLocked(resp.pre, now)
    /\ \E r \in refresh_tokens : r.user_id = resp.pre.id

\* C37: a logout authenticated as one user that presents a refresh token of
\* another user revokes nothing, and a refresh token that the logout of its
\* owner has not revoked is still exchanged by refresh.
C37_LogoutSparesOtherUsersToken ==
    /\ (/\ resp.op = "logout"
        /\ resp.status = 200
        /\ resp.token # NoToken
        /\ resp.token.userId # resp.user.userId) =>
          /\ ~resp.changed
          /\ resp.token \notin ghost.loggedOut => LedgerHolds(resp.token, now)
    /\ (/\ resp.op = "refresh"
        /\ resp.at = now
        /\ resp.token \in clientRefresh
        /\ resp.token \notin ghost.loggedOut) => resp.status = 200

\* a logout of one user with the live refresh token of the other
C37_Witness ==
    /\ resp.op = "logout"
    /\ resp.status = 200
    /\ resp.token # NoToken
    /\ resp.token.userId # resp.user.userId
    /\ ValidateRefreshToken(refresh_tokens, resp.token.userId, resp.token, now)

\* C38: once a password change has answered 200, the ledger holds no live
\* refresh token issued by a login whose password was verified against the
\* password the change replaced.
C38_NoSessionFromOldPassword ==
    ~(/\ resp.op = "login"
      /\ resp.status = 200
      /\ resp.stale
      /\ \A q \in Procs : inflight[q].pc \notin {"update", "revoke"}
      /\ LedgerHolds(resp.refreshToken, now))

\* the user records a login, a refresh, a me or a password-change request
\* is about: by the email of the body, or by the user id of the token
Addressed(r) ==
    IF r.op = "login" THEN {u \in users : u.email = r.email}
    ELSE IF r.op = "refresh" THEN {u \in users : u.id = r.token.userId}
    ELSE IF r.op \in {"me", "password"} THEN {u \in users : u.id = r.header.token.userId}
    ELSE {}

\* C39: every login, refresh, me and password-change request for a user
\* whose record is deactivated fails, and none of them changes a user
\* record (password hash, failure counter, lock expiry) or the ledger.
C39_DeactivatedUserLockedOut ==
    [][(\E u \in Addressed(resp') : ~u.is_active) =>
          /\ resp'.status >= 400
          /\ users' = users
          /\ refresh_tokens' = refresh_tokens]_vars

\* the interceptor's account of one request: one refresh call and one
\* retry at most, a retry only after a refresh that succeeded, the retried
\* request rejected when it is answered 401 again, and logout() called once
\* when the refresh call failed
OneRefreshOneRetry ==
    LET call == browser.call IN
    /\ call.refreshes <= 1
    /\ call.sends <= 2
    /\ call.sends = 2 => (call.retry /\ call.refreshes = 1 /\ call.refreshed = "ok")
    /\ (call.sends = 2 /\ call.pc = "settled" /\ call.status = 401) =>
          call.outcome = "rejected"
    /\ call.refreshed = "failed" =>
          (call.logouts = 1 /\ call.sends = 1 /\ call.pc = "settled"
           /\ call.outcome = "rejected")

\* C40: for any request, the response interceptor makes at most one refresh
\* call and sends the request at most once more; a retried request answered
\* 401 is rejected without another refresh, a failed refresh call ends in
\* logout(), and every request in flight is settled in the end.
C40_InterceptorRetriesOnce ==
    /\ []OneRefreshOneRetry
    /\ (browser.call.pc \in {"sent", "refreshing"}) ~> (browser.call.pc = "settled")
    /\ (browser.call.refreshed = "failed" /\ browser.leaving) ~> ~browser.leaving

\* a request retried after a refresh and answered 401 a second time
C40_Witness ==
    /\ browser.call.pc = "settled"
    /\ browser.call.sends = 2
    /\ browser.call.refreshes = 1
    /\ browser.call.status = 401
    /\ browser.call.outcome = "rejected"
    /\ browser.call.bearer = "a1"

=============================================================================
